---- MODULE Spec2Model ----
(***************************************************************************)
(* A model of zerkhuang/simple-rust (simple-redis): the RESP codec of      *)
(* src/resp (module tree of src/resp/mod.rs: `mod decode; mod encode;`),   *)
(* the command layer of src/cmd and the connection loop of src/network.rs. *)
(*                                                                         *)
(* A byte is a short string: a printable ASCII byte is the character       *)
(* itself, "CR" and "LF" are 0x0D and 0x0A, "xFF" is the byte 0xFF (never  *)
(* valid in UTF-8) and "xEF" "xBF" "xBD" are the three bytes of U+FFFD.    *)
(* A buffer (BytesMut, Vec<u8>, String) is a sequence of bytes.            *)
(***************************************************************************)
EXTENDS Integers, Sequences, FiniteSets, TLC

(***************************************************************************)
(* Bounds of the model.                                                    *)
(***************************************************************************)
\* longest bulk payload / simple text drawn for a frame
MaxPayloadLen == 2
\* most children of an aggregate frame drawn for the codec runs
MaxElems == 2
\* most frames concatenated on the wire in the codec runs
MaxFrames == 2
\* most decode calls made on one buffer in the codec runs
MaxDecodes == 2
\* most frames handled in an executor run
MaxCmds == 3
\* most commands executed in a run of the executors called on command values
MaxCalls == 3
\* most insertions into a set or a map built and encoded
MaxInserts == 3
\* HSET commands of the writing connection, and SISMEMBER commands of the asking one
MaxWrites == 2
MaxQueries == 2
\* arguments after the name of a command converted directly
MaxArgs == 4
\* bytes of a buffer a helper is called on directly
MaxBufLen == 4
\* frames of RespFrame::from(f64) the stack holds before it overflows
MaxStack == 3
\* most messages a client sends on the connection
MaxRequests == 2
\* most frames the connection loop handles before the run is cut
MaxResponses == 3

(***************************************************************************)
(* Bytes.                                                                  *)
(***************************************************************************)
CR == "CR"
LF == "LF"
CRLF == <<CR, LF>>

Digit == <<"0", "1", "2", "3", "4", "5", "6", "7", "8", "9">>

IsDigit(b) == \E i \in 1..10 : Digit[i] = b

DigitVal(b) == (CHOOSE i \in 1..10 : Digit[i] = b) - 1

\* the numeric value of a byte: what u8 / str comparison (Ord) compares
ByteVal(b) ==
    CASE b = LF -> 10
      [] b = CR -> 13
      [] b = "!" -> 33
      [] b = "#" -> 35
      [] b = "$" -> 36
      [] b = "%" -> 37
      [] b = "*" -> 42
      [] b = "+" -> 43
      [] b = "," -> 44
      [] b = "-" -> 45
      [] b = "." -> 46
      [] IsDigit(b) -> 48 + DigitVal(b)
      [] b = ":" -> 58
      [] b = "A" -> 65
      [] b = "G" -> 71
      [] b = "K" -> 75
      [] b = "O" -> 79
      [] b = "_" -> 95
      [] b = "a" -> 97
      [] b = "b" -> 98
      [] b = "e" -> 101
      [] b = "f" -> 102
      [] b = "g" -> 103
      [] b = "h" -> 104
      [] b = "k" -> 107
      [] b = "l" -> 108
      [] b = "s" -> 115
      [] b = "t" -> 116
      [] b = "v" -> 118
      [] b = "w" -> 119
      [] b = "x" -> 120
      [] b = "~" -> 126
      [] b = "xBD" -> 189
      [] b = "xBF" -> 191
      [] b = "xEF" -> 239
      [] b = "xFF" -> 255

\* &buf[a..b] (0-based, b exclusive); the callers establish a <= b <= len
Slice(buf, a, b) == SubSeq(buf, a + 1, b)

\* &buf[a..]
SliceFrom(buf, a) == SubSeq(buf, a + 1, Len(buf))

IsPrefix(p, s) == Len(p) <= Len(s) /\ SubSeq(s, 1, Len(p)) = p

IsStrictPrefix(p, s) == Len(p) < Len(s) /\ SubSeq(s, 1, Len(p)) = p

RECURSIVE NatDigits(_)
\* Display of an unsigned integer (format!("{}", n)): its decimal digits
NatDigits(n) ==
    IF n < 10 THEN <<Digit[n + 1]>>
    ELSE NatDigits(n \div 10) \o <<Digit[(n % 10) + 1]>>

\* an i64 is held as its sign and the decimal digits of its magnitude, so that
\* every value up to i64::MIN and i64::MAX is held exactly: the i64 of a number
I64(n) == [neg |-> n < 0, digits |-> NatDigits(IF n < 0 THEN 0 - n ELSE n)]

\* Display of an i64 (format!("{}", n)): "-" and the digits of |n| below 0
I64Display(v) == IF v.neg THEN <<"-">> \o v.digits ELSE v.digits

RECURSIVE from_utf8_lossy(_)
\* String::from_utf8_lossy on the model's bytes: every byte but "xFF" is kept
\* (the U+FFFD bytes pass through as one well-formed character when they come
\* in order, which is the only way the model produces them); an ill-formed
\* byte becomes U+FFFD, three bytes
from_utf8_lossy(bs) ==
    IF bs = <<>> THEN <<>>
    ELSE (IF Head(bs) = "xFF" THEN <<"xEF", "xBF", "xBD">> ELSE <<Head(bs)>>)
         \o from_utf8_lossy(Tail(bs))

(***************************************************************************)
(* Frames (src/resp/mod.rs).  A frame is a record [tag, val]; the tags are *)
(* the variants of enum RespFrame.  val is the payload: the text or bytes  *)
(* of a string variant, the i64, the bool, the text of a RespDouble, the   *)
(* children of an Array, the (key, value) pairs of a Map in key order and  *)
(* the elements of a Set in element order (BTreeMap / BTreeSet iteration   *)
(* order); <<>> for the three unit structs.                                *)
(***************************************************************************)
SimpleString(s) == [tag |-> "SimpleString", val |-> s]
SimpleError(s) == [tag |-> "Error", val |-> s]
BulkError(b) == [tag |-> "BulkError", val |-> b]
Integer(n) == [tag |-> "Integer", val |-> I64(n)]
\* RespFrame::Integer of an i64 as the model holds it
IntegerOf(v) == [tag |-> "Integer", val |-> v]
BulkString(b) == [tag |-> "BulkString", val |-> b]
NullBulkString == [tag |-> "NullBulkString", val |-> <<>>]
RespArray(fs) == [tag |-> "Array", val |-> fs]
RespNullArray == [tag |-> "NullArray", val |-> <<>>]
RespNull == [tag |-> "Null", val |-> <<>>]
Boolean(b) == [tag |-> "Boolean", val |-> b]
RespDouble(text) == [tag |-> "Double", val |-> text]
RespMap(pairs) == [tag |-> "Map", val |-> pairs]
RespSet(elems) == [tag |-> "Set", val |-> elems]

\* the variants ranked as the table of the specification lists them: not the
\* code's, used to show that the order of a set's elements rests on the order
\* in which enum RespFrame declares its variants
TagRank_TableOrder(t) ==
    CASE t = "SimpleString" -> 0
      [] t = "Error" -> 1
      [] t = "Integer" -> 2
      [] t = "BulkString" -> 3
      [] t = "NullBulkString" -> 4
      [] t = "BulkError" -> 5
      [] t = "Null" -> 6
      [] t = "Boolean" -> 7
      [] t = "Double" -> 8
      [] t = "Array" -> 9
      [] t = "NullArray" -> 10
      [] t = "Map" -> 11
      [] t = "Set" -> 12

\* the place of a variant in enum RespFrame: what the derived Ord compares first
TagRank(t) ==
    CASE t = "SimpleString" -> 0
      [] t = "Error" -> 1
      [] t = "BulkError" -> 2
      [] t = "Integer" -> 3
      [] t = "BulkString" -> 4
      [] t = "NullBulkString" -> 5
      [] t = "Array" -> 6
      [] t = "NullArray" -> 7
      [] t = "Null" -> 8
      [] t = "Boolean" -> 9
      [] t = "Double" -> 10
      [] t = "Map" -> 11
      [] t = "Set" -> 12

IntCmp(a, b) == IF a < b THEN -1 ELSE IF a > b THEN 1 ELSE 0

RECURSIVE BytesCmp(_, _)
\* Ord of Vec<u8> and of String: lexicographic by byte value
BytesCmp(a, b) ==
    IF a = <<>> THEN (IF b = <<>> THEN 0 ELSE -1)
    ELSE IF b = <<>> THEN 1
    ELSE IF ByteVal(Head(a)) # ByteVal(Head(b))
         THEN IntCmp(ByteVal(Head(a)), ByteVal(Head(b)))
    ELSE BytesCmp(Tail(a), Tail(b))

\* Ord of i64 on the sign and digits held: by sign, then by magnitude (the longer
\* digit string, then the digits)
I64Cmp(a, b) ==
    LET MagCmp(x, y) ==
            IF Len(x) # Len(y) THEN IntCmp(Len(x), Len(y)) ELSE BytesCmp(x, y)
    IN  IF a.neg # b.neg THEN (IF a.neg THEN -1 ELSE 1)
        ELSE IF a.neg THEN MagCmp(b.digits, a.digits)
        ELSE MagCmp(a.digits, b.digits)

RECURSIVE FrameCmp(_, _), FramesCmp(_, _), PairsCmp(_, _)
\* #[derive(Ord)] on RespFrame: the variant first, then the payload
FrameCmp(a, b) ==
    IF a.tag # b.tag THEN IntCmp(TagRank(a.tag), TagRank(b.tag))
    ELSE CASE a.tag \in {"SimpleString", "Error", "BulkError", "BulkString", "Double"} ->
                  BytesCmp(a.val, b.val)
           [] a.tag = "Integer" -> I64Cmp(a.val, b.val)
           [] a.tag = "Boolean" ->
                  IntCmp(IF a.val THEN 1 ELSE 0, IF b.val THEN 1 ELSE 0)
           [] a.tag \in {"Array", "Set"} -> FramesCmp(a.val, b.val)
           [] a.tag = "Map" -> PairsCmp(a.val, b.val)
           [] OTHER -> 0

\* Ord of Vec<RespFrame> and of BTreeSet<RespFrame>: lexicographic
FramesCmp(xs, ys) ==
    IF xs = <<>> THEN (IF ys = <<>> THEN 0 ELSE -1)
    ELSE IF ys = <<>> THEN 1
    ELSE LET Then(c) == IF c # 0 THEN c ELSE FramesCmp(Tail(xs), Tail(ys))
         IN  Then(FrameCmp(Head(xs), Head(ys)))

\* Ord of BTreeMap<String, RespFrame>: lexicographic over the (key, value) pairs
PairsCmp(xs, ys) ==
    IF xs = <<>> THEN (IF ys = <<>> THEN 0 ELSE -1)
    ELSE IF ys = <<>> THEN 1
    ELSE LET ThenRest(c) == IF c # 0 THEN c ELSE PairsCmp(Tail(xs), Tail(ys))
             ThenValue(c) ==
                 IF c # 0 THEN c ELSE ThenRest(FrameCmp(Head(xs)[2], Head(ys)[2]))
         IN  ThenValue(BytesCmp(Head(xs)[1], Head(ys)[1]))

RECURSIVE BTreeSet_insert(_, _)
\* BTreeSet::insert: the element goes to its place in the order; an element
\* already there is kept
BTreeSet_insert(s, f) ==
    IF s = <<>> THEN <<f>>
    ELSE LET Place(c) ==
                 IF c < 0 THEN <<f>> \o s
                 ELSE IF c = 0 THEN s
                 ELSE <<Head(s)>> \o BTreeSet_insert(Tail(s), f)
         IN  Place(FrameCmp(f, Head(s)))

\* a map that keeps its entries as they were inserted: not the code's, used to
\* show that the encoding of a map rests on the ordered container
Vec_push(m, k, v) == Append(m, <<k, v>>)

RECURSIVE BTreeMap_insert(_, _, _)
\* BTreeMap::insert: the pair goes to the key's place; the value of a key
\* already there is replaced
BTreeMap_insert(m, k, v) ==
    IF m = <<>> THEN <<<<k, v>>>>
    ELSE LET Place(c) ==
                 IF c < 0 THEN <<<<k, v>>>> \o m
                 ELSE IF c = 0 THEN <<<<k, v>>>> \o Tail(m)
                 ELSE <<Head(m)>> \o BTreeMap_insert(Tail(m), k, v)
         IN  Place(BytesCmp(k, Head(m)[1]))

(***************************************************************************)
(* RespDouble (src/resp/mod.rs).  An f64 of the model is a whole number of *)
(* halves h (the value h / 2), which is exact in binary.                   *)
(***************************************************************************)
\* 1e8 in halves: the threshold of RespDouble::new
F64ExpThreshold == 200000000

RECURSIVE StripTrailingZeros(_)
StripTrailingZeros(ds) ==
    IF ds # <<>> /\ ds[Len(ds)] = "0"
    THEN StripTrailingZeros(SubSeq(ds, 1, Len(ds) - 1))
    ELSE ds

F64Abs(h) == IF h < 0 THEN 0 - h ELSE h

\* the sign "{:+}" and "{:+e}" print
F64Sign(h) == IF h < 0 THEN <<"-">> ELSE <<"+">>

\* format!("{:+}", s): sign, integral digits, "." and the fraction when there is one
F64Display(h) ==
    F64Sign(h) \o NatDigits(F64Abs(h) \div 2)
        \o (IF F64Abs(h) % 2 = 1 THEN <<".", "5">> ELSE <<>>)

\* format!("{:+e}", s): sign, first significant digit, "." and the others when
\* there are any, "e" and the decimal exponent (the model's values are 0 or >= 1)
F64LowerExp(h) ==
    LET Render(int, sig) ==
            F64Sign(h) \o <<Head(sig)>>
                \o (IF Len(sig) > 1 THEN <<".">> \o Tail(sig) ELSE <<>>)
                \o <<"e">> \o NatDigits(Len(int) - 1)
        Significant(ds) == IF ds = <<>> THEN <<"0">> ELSE ds
        Split(int) ==
            Render(int, Significant(StripTrailingZeros(
                           int \o (IF F64Abs(h) % 2 = 1 THEN <<"5">> ELSE <<>>))))
    IN  Split(NatDigits(F64Abs(h) \div 2))

\* RespDouble::new
RespDouble_new(h) ==
    IF F64Abs(h) > F64ExpThreshold THEN F64LowerExp(h) ELSE F64Display(h)

\* the f64 values of the model, in halves: 0, 1.5, -1.5, 1e8, 2.5e8
F64Vals == {0, 3, -3, 200000000, 500000000}

\* the texts str::parse::<f64> maps to a value of the model: its two prints, with
\* the "+" or without it
F64Spellings(h) ==
    LET WithOrWithoutPlus(both) ==
            both \cup {Tail(t) : t \in {u \in both : Head(u) = "+"}}
    IN  WithOrWithoutPlus({F64Display(h), F64LowerExp(h)})

\* str::parse::<f64> on the texts the model holds: [ok, val]
F64Parse(text) ==
    LET Pick(hs) ==
            IF hs = {} THEN [ok |-> FALSE, val |-> 0]
            ELSE [ok |-> TRUE, val |-> CHOOSE h \in hs : TRUE]
    IN  Pick({h \in F64Vals : text \in F64Spellings(h)})

(***************************************************************************)
(* Encoders (src/resp/encode.rs).                                          *)
(***************************************************************************)
\* impl RespEncoder for SimpleString
SimpleString_encode(s) == <<"+">> \o s \o CRLF

\* impl RespEncoder for SimpleError
SimpleError_encode(s) == <<"-">> \o s \o CRLF

\* impl RespEncoder for BulkError
BulkError_encode(b) ==
    <<"!">> \o NatDigits(Len(b)) \o CRLF \o from_utf8_lossy(b) \o CRLF

\* impl RespEncoder for i64
i64_encode(n) ==
    LET sign == IF n.neg THEN <<>> ELSE <<"+">>
    IN  <<":">> \o sign \o I64Display(n) \o CRLF

\* a BulkString encoder that writes the empty string as the null bulk string, as
\* the draft src/resp/bulk_string.rs does: not the crate's, used to show that
\* the two encodings rest on BulkString::encode
BulkString_encode_EmptyIsNull(b) ==
    IF b = <<>> THEN <<"$", "-", "1">> \o CRLF
    ELSE <<"$">> \o NatDigits(Len(b)) \o CRLF \o from_utf8_lossy(b) \o CRLF

\* impl RespEncoder for BulkString
BulkString_encode(b) ==
    <<"$">> \o NatDigits(Len(b)) \o CRLF \o from_utf8_lossy(b) \o CRLF

\* impl RespEncoder for NullBulkString
NullBulkString_encode == <<"$", "-", "1">> \o CRLF

\* impl RespEncoder for RespNull
RespNull_encode == <<"_">> \o CRLF

\* impl RespEncoder for bool
bool_encode(b) == <<"#", IF b THEN "t" ELSE "f">> \o CRLF

\* impl RespEncoder for RespDouble
RespDouble_encode(text) == <<",">> \o text \o CRLF

\* impl RespEncoder for RespNullArray
RespNullArray_encode == <<"*", "-", "1">> \o CRLF

RECURSIVE RespFrame_encode(_), EncodeAll(_), EncodePairs(_)
\* #[enum_dispatch(RespEncoder)] on RespFrame, with the encoders of RespArray,
\* RespMap and RespSet
RespFrame_encode(f) ==
    CASE f.tag = "SimpleString" -> SimpleString_encode(f.val)
      [] f.tag = "Error" -> SimpleError_encode(f.val)
      [] f.tag = "BulkError" -> BulkError_encode(f.val)
      [] f.tag = "Integer" -> i64_encode(f.val)
      [] f.tag = "BulkString" -> BulkString_encode(f.val)
      [] f.tag = "NullBulkString" -> NullBulkString_encode
      [] f.tag = "Array" -> <<"*">> \o NatDigits(Len(f.val)) \o CRLF \o EncodeAll(f.val)
      [] f.tag = "NullArray" -> RespNullArray_encode
      [] f.tag = "Null" -> RespNull_encode
      [] f.tag = "Boolean" -> bool_encode(f.val)
      [] f.tag = "Double" -> RespDouble_encode(f.val)
      [] f.tag = "Map" -> <<"%">> \o NatDigits(Len(f.val)) \o CRLF \o EncodePairs(f.val)
      [] f.tag = "Set" -> <<"~">> \o NatDigits(Len(f.val)) \o CRLF \o EncodeAll(f.val)

\* for frame in &self.0 { encoded.extend_from_slice(&frame.encode()) }
EncodeAll(fs) ==
    IF fs = <<>> THEN <<>> ELSE RespFrame_encode(Head(fs)) \o EncodeAll(Tail(fs))

\* for (key, value) in &self.0: the key as a SimpleString, then the value
EncodePairs(ps) ==
    IF ps = <<>> THEN <<>>
    ELSE SimpleString_encode(Head(ps)[1]) \o RespFrame_encode(Head(ps)[2])
         \o EncodePairs(Tail(ps))

(***************************************************************************)
(* Number parsing (core::str::parse).  A parse result is [ok, val].        *)
(***************************************************************************)
\* a value beyond every buffer length of the model: what a count or length of
\* more than nine digits is held as (it is only compared with lengths)
FarValue == 1000000000

\* the digits of usize::MAX and of i64::MAX
UsizeMaxDigits ==
    <<"1", "8", "4", "4", "6", "7", "4", "4", "0", "7", "3", "7", "0", "9", "5", "5",
      "1", "6", "1", "5">>
I64MaxDigits ==
    <<"9", "2", "2", "3", "3", "7", "2", "0", "3", "6", "8", "5", "4", "7", "7", "5",
      "8", "0", "7">>
\* the digits of |i64::MIN|
I64MinDigits ==
    <<"9", "2", "2", "3", "3", "7", "2", "0", "3", "6", "8", "5", "4", "7", "7", "5",
      "8", "0", "8">>

AllDigits(ds) == \A i \in 1..Len(ds) : IsDigit(ds[i])

RECURSIVE StripLeadingZeros(_)
StripLeadingZeros(ds) ==
    IF Len(ds) > 1 /\ Head(ds) = "0" THEN StripLeadingZeros(Tail(ds)) ELSE ds

RECURSIVE DigitsValue(_)
DigitsValue(ds) ==
    IF ds = <<>> THEN 0
    ELSE DigitsValue(SubSeq(ds, 1, Len(ds) - 1)) * 10 + DigitVal(ds[Len(ds)])

\* whether the number written ds (no leading zeros) is at most the one written max
DigitsAtMost(ds, max) ==
    \/ Len(ds) < Len(max)
    \/ Len(ds) = Len(max) /\ BytesCmp(ds, max) <= 0

\* the magnitude of a digit string: exact up to nine digits, FarValue beyond
Magnitude(ds) ==
    LET Value(sig) == IF Len(sig) <= 9 THEN DigitsValue(sig) ELSE FarValue
    IN  Value(StripLeadingZeros(ds))

\* str::parse::<usize>: an optional "+", then digits; no "-"; overflow is an error
ParseUsize(text) ==
    LET Parse(ds) ==
            IF ds = <<>> \/ ~AllDigits(ds)
               \/ ~DigitsAtMost(StripLeadingZeros(ds), UsizeMaxDigits)
            THEN [ok |-> FALSE, val |-> 0]
            ELSE [ok |-> TRUE, val |-> Magnitude(ds)]
    IN  Parse(IF text # <<>> /\ Head(text) = "+" THEN Tail(text) ELSE text)

\* a parse that takes digits of any width: not the code's, used to show that
\* the rejection of text beyond 64 bits rests on the range check of parse::<i64>
ParseI64_AnyWidth(text) ==
    LET Parse(neg, ds) ==
            IF ds = <<>> \/ ~AllDigits(ds)
            THEN [ok |-> FALSE, val |-> I64(0)]
            ELSE [ok |-> TRUE,
                  val |-> [neg |-> neg /\ StripLeadingZeros(ds) # <<"0">>,
                           digits |-> StripLeadingZeros(ds)]]
    IN  Parse(text # <<>> /\ Head(text) = "-",
              IF text # <<>> /\ Head(text) \in {"+", "-"} THEN Tail(text) ELSE text)

\* str::parse::<i64>: an optional "+" or "-", then digits; overflow is an error
ParseI64(text) ==
    LET Value(neg, sig) == [neg |-> neg /\ sig # <<"0">>, digits |-> sig]
        Parse(neg, ds) ==
            IF ds = <<>> \/ ~AllDigits(ds)
               \/ ~DigitsAtMost(StripLeadingZeros(ds),
                                IF neg THEN I64MinDigits ELSE I64MaxDigits)
            THEN [ok |-> FALSE, val |-> I64(0)]
            ELSE [ok |-> TRUE, val |-> Value(neg, StripLeadingZeros(ds))]
    IN  Parse(text # <<>> /\ Head(text) = "-",
              IF text # <<>> /\ Head(text) \in {"+", "-"} THEN Tail(text) ELSE text)

(***************************************************************************)
(* Decoder helpers (src/resp/decode.rs).  A decode result is [err, frame], *)
(* a length result [err, len]; err is "None" for Ok and otherwise the      *)
(* RespError variant (the String a variant carries is not modelled), or    *)
(* "Panic" when the call panics instead of returning.                      *)
(***************************************************************************)
NilFrame == [tag |-> "Nil", val |-> <<>>]

Ok(f) == [err |-> "None", frame |-> f]
Err(e) == [err |-> e, frame |-> NilFrame]
OkLen(n) == [err |-> "None", len |-> n]
ErrLen(e) == [err |-> e, len |-> 0]

\* the indices i (0-based) with buf[i] = '\r' and buf[i + 1] = '\n'
CrlfAt(buf) == {i \in 0..(Len(buf) - 2) : buf[i + 1] = CR /\ buf[i + 2] = LF}

\* fn find_crlf: [err, at]; "None" with the index of the nth CRLF, "NotFound"
\* for Option::None.  On the empty buffer `buf.len() - 1` underflows: a panic
\* with overflow checks, and without them the range wraps and buf[0] is out of
\* bounds, a panic too
find_crlf(buf, nth) ==
    LET Nth(found) ==
            IF Cardinality(found) < nth THEN [err |-> "NotFound", at |-> 0]
            ELSE [err |-> "None",
                  at |-> CHOOSE i \in found : Cardinality({j \in found : j <= i}) = nth]
    IN  IF Len(buf) = 0 THEN [err |-> "Panic", at |-> 0] ELSE Nth(CrlfAt(buf))

\* find_crlf(buf, nth).ok_or(RespError::Incomplete)?
FindCrlfOrIncomplete(buf, nth) ==
    LET OkOr(r) == IF r.err = "NotFound" THEN [err |-> "Incomplete", at |-> 0] ELSE r
    IN  OkOr(find_crlf(buf, nth))

\* fn validate_frame_data: the error, "None" for Ok(())
validate_frame_data(buf, prefix) ==
    IF Len(buf) < 3 THEN "Incomplete"
    ELSE IF buf[1] # prefix THEN "InvalidFrameType"
    ELSE IF <<buf[Len(buf) - 1], buf[Len(buf)]>> # CRLF THEN "Incomplete"
    ELSE "None"

\* a parse_length that only checks that the declared length fits in the frame:
\* not the code's, used to show that the rejection of a mismatched length rests
\* on the comparison in parse_length
parse_length_FitsOnly(buf) ==
    LET Parsed(e, n) ==
            IF ~n.ok THEN [err |-> "InvalidFrameLength", len_end |-> 0, len |-> 0]
            ELSE IF e.at + 2 + n.val + 2 > Len(buf)
                 THEN [err |-> "InvalidFrameLength", len_end |-> 0, len |-> 0]
            ELSE [err |-> "None", len_end |-> e.at, len |-> n.val]
        Found(e) ==
            IF e.err # "None" THEN [err |-> e.err, len_end |-> 0, len |-> 0]
            ELSE Parsed(e, ParseUsize(from_utf8_lossy(Slice(buf, 1, e.at))))
    IN  Found(FindCrlfOrIncomplete(buf, 1))

\* fn parse_length: [err, len_end, len]
parse_length(buf) ==
    LET Parsed(e, n) ==
            IF ~n.ok THEN [err |-> "InvalidFrameLength", len_end |-> 0, len |-> 0]
            ELSE IF e.at + 2 + n.val + 2 # Len(buf)
                 THEN [err |-> "InvalidFrameLength", len_end |-> 0, len |-> 0]
            ELSE [err |-> "None", len_end |-> e.at, len |-> n.val]
        Found(e) ==
            IF e.err # "None" THEN [err |-> e.err, len_end |-> 0, len |-> 0]
            ELSE Parsed(e, ParseUsize(from_utf8_lossy(Slice(buf, 1, e.at))))
    IN  Found(FindCrlfOrIncomplete(buf, 1))

\* the expect_length of every one-line variant: find_crlf(buf, 1) + 2
LineLength(buf) ==
    LET Found(e) == IF e.err # "None" THEN ErrLen(e.err) ELSE OkLen(e.at + 2)
    IN  Found(FindCrlfOrIncomplete(buf, 1))

\* &buf[1..&buf.len() - 2] of a validated buffer
LineData(buf) == Slice(buf, 1, Len(buf) - 2)

(***************************************************************************)
(* Decoders (src/resp/decode.rs).  No decoder of this file advances or     *)
(* splits the buffer it is given: each reads slices of it, and an          *)
(* aggregate decodes each child from a copy of the child's bytes.          *)
(***************************************************************************)
\* impl RespDecoder for SimpleString: decode
SimpleString_decode(buf) ==
    LET Valid(v) ==
            IF v # "None" THEN Err(v)
            ELSE Ok(SimpleString(from_utf8_lossy(LineData(buf))))
    IN  Valid(validate_frame_data(buf, "+"))

\* impl RespDecoder for SimpleString: expect_length
SimpleString_expect_length(buf) == LineLength(buf)

\* impl RespDecoder for SimpleError: decode
SimpleError_decode(buf) ==
    LET Valid(v) ==
            IF v # "None" THEN Err(v)
            ELSE Ok(SimpleError(from_utf8_lossy(LineData(buf))))
    IN  Valid(validate_frame_data(buf, "-"))

\* impl RespDecoder for BulkError / BulkString: expect_length
Bulk_expect_length(buf) ==
    LET Found(e) == IF e.err # "None" THEN ErrLen(e.err) ELSE OkLen(e.at + 2)
    IN  Found(FindCrlfOrIncomplete(buf, 2))

\* the body BulkError::decode and BulkString::decode share: [err, data]
Bulk_decode(buf, prefix) ==
    LET Data(pl) ==
            IF pl.err # "None" THEN [err |-> pl.err, data |-> <<>>]
            ELSE [err |-> "None",
                  data |-> Slice(buf, pl.len_end + 2, pl.len_end + 2 + pl.len)]
        Framed(frame_len) ==
            IF frame_len.err # "None" THEN [err |-> frame_len.err, data |-> <<>>]
            ELSE Data(parse_length(Slice(buf, 0, frame_len.len)))
        Valid(v) ==
            IF v # "None" THEN [err |-> v, data |-> <<>>]
            ELSE Framed(Bulk_expect_length(buf))
    IN  Valid(validate_frame_data(buf, prefix))

\* impl RespDecoder for BulkError: decode
BulkError_decode(buf) ==
    LET Wrap(r) == IF r.err # "None" THEN Err(r.err) ELSE Ok(BulkError(r.data))
    IN  Wrap(Bulk_decode(buf, "!"))

\* impl RespDecoder for i64: decode
i64_decode(buf) ==
    LET Parsed(n) == IF ~n.ok THEN Err("Invalid") ELSE Ok(IntegerOf(n.val))
        Valid(v) ==
            IF v # "None" THEN Err(v)
            ELSE Parsed(ParseI64(from_utf8_lossy(LineData(buf))))
    IN  Valid(validate_frame_data(buf, ":"))

\* impl RespDecoder for BulkString: decode
BulkString_decode(buf) ==
    LET Wrap(r) == IF r.err # "None" THEN Err(r.err) ELSE Ok(BulkString(r.data))
    IN  Wrap(Bulk_decode(buf, "$"))

\* impl RespDecoder for NullBulkString: decode
NullBulkString_decode(buf) ==
    LET Valid(v) ==
            IF v # "None" THEN Err(v)
            ELSE IF LineData(buf) # <<"-", "1">> THEN Err("Invalid")
            ELSE Ok(NullBulkString)
    IN  Valid(validate_frame_data(buf, "$"))

\* impl RespDecoder for RespNullArray: decode
RespNullArray_decode(buf) ==
    LET Valid(v) ==
            IF v # "None" THEN Err(v)
            ELSE IF LineData(buf) # <<"-", "1">> THEN Err("Invalid")
            ELSE Ok(RespNullArray)
    IN  Valid(validate_frame_data(buf, "*"))

\* impl RespDecoder for RespNull: decode
RespNull_decode(buf) ==
    LET Valid(v) ==
            IF v # "None" THEN Err(v)
            ELSE IF Len(buf) # 3 THEN Err("Invalid")
            ELSE Ok(RespNull)
    IN  Valid(validate_frame_data(buf, "_"))

\* impl RespDecoder for bool: decode
bool_decode(buf) ==
    LET Data(s) ==
            IF s = <<"t">> THEN Ok(Boolean(TRUE))
            ELSE IF s = <<"f">> THEN Ok(Boolean(FALSE))
            ELSE Err("Invalid")
        Valid(v) == IF v # "None" THEN Err(v) ELSE Data(LineData(buf))
    IN  Valid(validate_frame_data(buf, "#"))

\* impl RespDecoder for RespDouble: decode
RespDouble_decode(buf) ==
    LET Parsed(x) ==
            IF ~x.ok THEN Err("Invalid") ELSE Ok(RespDouble(RespDouble_new(x.val)))
        Valid(v) ==
            IF v # "None" THEN Err(v)
            ELSE Parsed(F64Parse(from_utf8_lossy(LineData(buf))))
    IN  Valid(validate_frame_data(buf, ","))

\* the count header of an aggregate: find_crlf(buf, 1), then parse::<usize> of
\* &buf[1..nth_len]: [err, nth_len, nth]
CountHeader(buf) ==
    LET Parsed(e, n) ==
            IF ~n.ok THEN [err |-> "Invalid", nth_len |-> 0, nth |-> 0]
            ELSE [err |-> "None", nth_len |-> e.at, nth |-> n.val]
        Found(e) ==
            IF e.err # "None" THEN [err |-> e.err, nth_len |-> 0, nth |-> 0]
            ELSE Parsed(e, ParseUsize(from_utf8_lossy(Slice(buf, 1, e.at))))
    IN  Found(FindCrlfOrIncomplete(buf, 1))

RECURSIVE RespFrame_decode(_), RespFrame_expect_length(_)
RECURSIVE DecodeChildren(_, _, _), DecodeEntries(_, _, _)
RECURSIVE SumChildren(_, _, _), SumEntries(_, _, _)

\* the loop of RespArray::expect_length and RespSet::expect_length: nth times
\* total += RespFrame::expect_length(&buf[total..])?
SumChildren(buf, total, nth) ==
    IF nth = 0 THEN OkLen(total)
    ELSE LET Add(frame_len) ==
                 IF frame_len.err # "None" THEN frame_len
                 ELSE SumChildren(buf, total + frame_len.len, nth - 1)
         IN  Add(RespFrame_expect_length(SliceFrom(buf, total)))

\* the loop of RespMap::expect_length: nth times key_len, then value_len
SumEntries(buf, total, nth) ==
    IF nth = 0 THEN OkLen(total)
    ELSE LET AddValue(key_len, value_len) ==
                 IF value_len.err # "None" THEN value_len
                 ELSE SumEntries(buf, total + key_len.len + value_len.len, nth - 1)
             AddKey(key_len) ==
                 IF key_len.err # "None" THEN key_len
                 ELSE AddValue(key_len,
                               RespFrame_expect_length(
                                   SliceFrom(buf, total + key_len.len)))
         IN  AddKey(RespFrame_expect_length(SliceFrom(buf, total)))

\* impl RespDecoder for RespArray / RespSet: expect_length
Aggregate_expect_length(buf) ==
    LET Header(h) ==
            IF h.err # "None" THEN ErrLen(h.err)
            ELSE SumChildren(buf, h.nth_len + 2, h.nth)
    IN  Header(CountHeader(buf))

\* impl RespDecoder for RespMap: expect_length
RespMap_expect_length(buf) ==
    LET Header(h) ==
            IF h.err # "None" THEN ErrLen(h.err)
            ELSE SumEntries(buf, h.nth_len + 2, h.nth)
    IN  Header(CountHeader(buf))

\* impl RespDecoder for RespFrame: expect_length
RespFrame_expect_length(buf) ==
    IF Len(buf) < 3 THEN ErrLen("Incomplete")
    ELSE CASE buf[1] \in {"+", "-", ":", "_", "#", ","} -> LineLength(buf)
           [] buf[1] = "!" -> Bulk_expect_length(buf)
           [] buf[1] = "$" ->
                  IF Slice(buf, 1, 3) = <<"-", "1">> THEN LineLength(buf)
                  ELSE Bulk_expect_length(buf)
           [] buf[1] = "*" ->
                  IF Slice(buf, 1, 3) = <<"-", "1">> THEN LineLength(buf)
                  ELSE Aggregate_expect_length(buf)
           [] buf[1] = "%" -> RespMap_expect_length(buf)
           [] buf[1] = "~" -> Aggregate_expect_length(buf)
           [] OTHER -> ErrLen("InvalidFrameType")

\* the loop of RespArray::decode and of RespSet::decode: [err, frames], the
\* frames in wire order
DecodeChildren(buf, start, nth) ==
    IF nth = 0 THEN [err |-> "None", frames |-> <<>>]
    ELSE LET Push(frame, rest) ==
                 IF rest.err # "None" THEN rest
                 ELSE [err |-> "None", frames |-> <<frame.frame>> \o rest.frames]
             Child(frame_len, frame) ==
                 IF frame.err # "None" THEN [err |-> frame.err, frames |-> <<>>]
                 ELSE Push(frame, DecodeChildren(buf, start + frame_len.len, nth - 1))
             Measured(frame_len) ==
                 IF frame_len.err # "None" THEN [err |-> frame_len.err, frames |-> <<>>]
                 ELSE Child(frame_len,
                            RespFrame_decode(Slice(buf, start, start + frame_len.len)))
         IN  Measured(RespFrame_expect_length(SliceFrom(buf, start)))

\* the loop of RespMap::decode: [err, entries], the entries in wire order
DecodeEntries(buf, start, nth) ==
    IF nth = 0 THEN [err |-> "None", entries |-> <<>>]
    ELSE LET Push(key, value, rest) ==
                 IF rest.err # "None" THEN rest
                 ELSE [err |-> "None",
                       entries |-> <<<<key.frame.val, value.frame>>>> \o rest.entries]
             Value(key, next, value) ==
                 IF value.err # "None" THEN [err |-> value.err, entries |-> <<>>]
                 ELSE Push(key, value, DecodeEntries(buf, next, nth - 1))
             ValueMeasured(key, at, value_len) ==
                 IF value_len.err # "None" THEN [err |-> value_len.err, entries |-> <<>>]
                 ELSE Value(key, at + value_len.len,
                            RespFrame_decode(Slice(buf, at, at + value_len.len)))
             Key(key_len, key) ==
                 IF key.err # "None" THEN [err |-> key.err, entries |-> <<>>]
                 ELSE ValueMeasured(key, start + key_len.len,
                                    RespFrame_expect_length(
                                        SliceFrom(buf, start + key_len.len)))
             KeyMeasured(key_len) ==
                 IF key_len.err # "None" THEN [err |-> key_len.err, entries |-> <<>>]
                 ELSE Key(key_len,
                          SimpleString_decode(Slice(buf, start, start + key_len.len)))
         IN  KeyMeasured(SimpleString_expect_length(SliceFrom(buf, start)))

RECURSIVE InsertAll(_, _)
\* frames.insert(frame) for each decoded element, in wire order
InsertAll(s, fs) ==
    IF fs = <<>> THEN s ELSE InsertAll(BTreeSet_insert(s, Head(fs)), Tail(fs))

RECURSIVE InsertEntries(_, _)
\* map.0.insert(key.0, value) for each decoded entry, in wire order
InsertEntries(m, es) ==
    IF es = <<>> THEN m
    ELSE InsertEntries(BTreeMap_insert(m, Head(es)[1], Head(es)[2]), Tail(es))

\* impl RespDecoder for RespArray: decode
RespArray_decode(buf) ==
    LET Children(c) == IF c.err # "None" THEN Err(c.err) ELSE Ok(RespArray(c.frames))
        Header(h) ==
            IF h.err # "None" THEN Err(h.err)
            ELSE Children(DecodeChildren(buf, h.nth_len + 2, h.nth))
        Valid(v) == IF v # "None" THEN Err(v) ELSE Header(CountHeader(buf))
    IN  Valid(validate_frame_data(buf, "*"))

\* impl RespDecoder for RespMap: decode
RespMap_decode(buf) ==
    LET Entries(c) ==
            IF c.err # "None" THEN Err(c.err)
            ELSE Ok(RespMap(InsertEntries(<<>>, c.entries)))
        Header(h) ==
            IF h.err # "None" THEN Err(h.err)
            ELSE Entries(DecodeEntries(buf, h.nth_len + 2, h.nth))
        Valid(v) == IF v # "None" THEN Err(v) ELSE Header(CountHeader(buf))
    IN  Valid(validate_frame_data(buf, "%"))

\* impl RespDecoder for RespSet: decode
RespSet_decode(buf) ==
    LET Children(c) ==
            IF c.err # "None" THEN Err(c.err)
            ELSE Ok(RespSet(InsertAll(<<>>, c.frames)))
        Header(h) ==
            IF h.err # "None" THEN Err(h.err)
            ELSE Children(DecodeChildren(buf, h.nth_len + 2, h.nth))
        Valid(v) == IF v # "None" THEN Err(v) ELSE Header(CountHeader(buf))
    IN  Valid(validate_frame_data(buf, "~"))

\* impl RespDecoder for RespFrame: decode
RespFrame_decode(buf) ==
    LET NullOr(r, other) == IF r.err \in {"None", "Incomplete"} THEN r ELSE other
    IN  IF buf = <<>> THEN Err("Incomplete")
        ELSE CASE buf[1] = "+" -> SimpleString_decode(buf)
               [] buf[1] = "-" -> SimpleError_decode(buf)
               [] buf[1] = "!" -> BulkError_decode(buf)
               [] buf[1] = ":" -> i64_decode(buf)
               [] buf[1] = "$" ->
                      NullOr(NullBulkString_decode(buf), BulkString_decode(buf))
               [] buf[1] = "_" -> RespNull_decode(buf)
               [] buf[1] = "#" -> bool_decode(buf)
               [] buf[1] = "," -> RespDouble_decode(buf)
               [] buf[1] = "*" -> NullOr(RespNullArray_decode(buf), RespArray_decode(buf))
               [] buf[1] = "%" -> RespMap_decode(buf)
               [] buf[1] = "~" -> RespSet_decode(buf)
               [] OTHER -> Err("InvalidFrameType")

(***************************************************************************)
(* The second draft of the decoder (src/resp/frame.rs with one file for    *)
(* each variant), which no module declaration compiles.  It consumes the   *)
(* buffer as it goes.  Its scanner helpers (extract_data and the others)   *)
(* are not among the sources: they are modelled from section 4.1 of the    *)
(* specification.  A result is [err, frame, buf], buf the buffer the call  *)
(* leaves.  The draft has no NullBulkString and no NullArray in its enum.  *)
(***************************************************************************)
DraftOk(f, rest) == [err |-> "None", frame |-> f, buf |-> rest]
DraftErr(e, rest) == [err |-> e, frame |-> NilFrame, buf |-> rest]

\* the index of the first CRLF at or after start, -1 when there is none
FirstCrlfFrom(buf, start) ==
    LET From(found) == IF found = {} THEN -1
                       ELSE CHOOSE i \in found : \A j \in found : i <= j
    IN  From({i \in CrlfAt(buf) : i >= start})

\* check_prefix and the search of read_line: the error, or "None"
check_prefix(buf, prefix) ==
    IF Len(buf) < Len(prefix) + 2 THEN "Incomplete"
    ELSE IF ~IsPrefix(prefix, buf) THEN "InvalidFrameType"
    ELSE IF FirstCrlfFrom(buf, Len(prefix)) < 0 THEN "Incomplete"
    ELSE "None"

\* extract_length_data: the text of the line after the prefix, nothing consumed
extract_length_data(buf, prefix) ==
    LET Line(e) ==
            IF e # "None" THEN [err |-> e, data |-> <<>>]
            ELSE [err |-> "None",
                  data |-> from_utf8_lossy(Slice(buf, Len(prefix),
                                                 FirstCrlfFrom(buf, Len(prefix))))]
    IN  Line(check_prefix(buf, prefix))

\* extract_data (read_line): the text of the line, consumed through its CRLF
extract_data(buf, prefix) ==
    LET Line(r) ==
            IF r.err # "None" THEN [err |-> r.err, data |-> <<>>, buf |-> buf]
            ELSE [err |-> "None", data |-> r.data,
                  buf |-> SliceFrom(buf, FirstCrlfFrom(buf, Len(prefix)) + 2)]
    IN  Line(extract_length_data(buf, prefix))

\* extract_fixed_data (expect_exact): the line must be the literal
extract_fixed_data(buf, prefix, literal) ==
    LET Line(r) ==
            IF r.err # "None" THEN [err |-> r.err, buf |-> buf]
            ELSE IF r.data # literal THEN [err |-> "Invalid", buf |-> buf]
            ELSE [err |-> "None", buf |-> r.buf]
    IN  Line(extract_data(buf, prefix))

\* extract_length (read_length_header) of an aggregate: the count, the header
\* consumed
extract_length(buf, prefix) ==
    LET Parsed(r, n) ==
            IF ~n.ok THEN [err |-> "Invalid", nth |-> 0, buf |-> buf]
            ELSE [err |-> "None", nth |-> n.val, buf |-> r.buf]
        Line(r) ==
            IF r.err # "None" THEN [err |-> r.err, nth |-> 0, buf |-> buf]
            ELSE Parsed(r, ParseUsize(r.data))
    IN  Line(extract_data(buf, prefix))

\* the decoders of one line (simple_string.rs, simple_error.rs, integer.rs,
\* bool.rs, double.rs, null.rs)
line_rs_decode(buf) ==
    LET AsInteger(n, rest) ==
            IF ~n.ok THEN DraftErr("Invalid", rest) ELSE DraftOk(IntegerOf(n.val), rest)
        AsDouble(x, rest) ==
            IF ~x.ok THEN DraftErr("Invalid", rest)
            ELSE DraftOk(RespDouble(RespDouble_new(x.val)), rest)
        AsBoolean(t, rest) ==
            IF t = <<"t">> THEN DraftOk(Boolean(TRUE), rest)
            ELSE IF t = <<"f">> THEN DraftOk(Boolean(FALSE), rest)
            ELSE DraftErr("Invalid", rest)
        Data(r) ==
            IF r.err # "None" THEN DraftErr(r.err, buf)
            ELSE CASE buf[1] = "+" -> DraftOk(SimpleString(r.data), r.buf)
                   [] buf[1] = "-" -> DraftOk(SimpleError(r.data), r.buf)
                   [] buf[1] = ":" -> AsInteger(ParseI64(r.data), r.buf)
                   [] buf[1] = "#" -> AsBoolean(r.data, r.buf)
                   [] buf[1] = "," -> AsDouble(F64Parse(r.data), r.buf)
        Fixed(r) == IF r.err # "None" THEN DraftErr(r.err, buf) ELSE DraftOk(RespNull, r.buf)
    IN  IF buf[1] = "_" THEN Fixed(extract_fixed_data(buf, <<"_">>, <<>>))
        ELSE Data(extract_data(buf, <<buf[1]>>))

\* BulkString::decode of bulk_string.rs: `$-1` is the empty BulkString and
\* five bytes are advanced over; otherwise the line after the header is read
\* and its length compared with the declared one.  BulkError::decode
\* (extract_sized_data) is taken to read the same way, without the `-1` case
bulk_string_rs_decode(buf, prefix) ==
    LET Wrap(data) == IF prefix = "$" THEN BulkString(data) ELSE BulkError(data)
        Data(r, n) ==
            IF r.err # "None" THEN DraftErr(r.err, buf)
            ELSE IF Len(r.data) # n.val THEN DraftErr("InvalidFrameLength", r.buf)
            ELSE DraftOk(Wrap(r.data), r.buf)
        Sized(h, n) ==
            IF ~n.ok THEN DraftErr("InvalidFrameLength", buf)
            ELSE Data(extract_data(buf, <<prefix>> \o h.data \o CRLF), n)
        Header(h) ==
            IF h.err # "None" THEN DraftErr(h.err, buf)
            ELSE IF prefix = "$" /\ h.data = <<"-", "1">>
                 THEN DraftOk(BulkString(<<>>), SliceFrom(buf, 5))
            ELSE Sized(h, ParseUsize(h.data))
    IN  Header(extract_length_data(buf, <<prefix>>))

RECURSIVE frame_rs_expect_length(_), SumLengths(_, _, _)
RECURSIVE frame_rs_decode(_), DraftChildren(_, _), DraftEntries(_, _)
\* the loops of the expect_length of array.rs, set.rs and map.rs: the lengths
\* of n frames from total on
SumLengths(buf, total, n) ==
    IF n = 0 THEN OkLen(total)
    ELSE LET Next(l) == IF l.err # "None" THEN l ELSE SumLengths(buf, total + l.len, n - 1)
         IN  Next(frame_rs_expect_length(SliceFrom(buf, total)))

\* RespFrame::expect_length of frame.rs
frame_rs_expect_length(buf) ==
    LET LineEnd(i) == IF i < 0 THEN ErrLen("Incomplete") ELSE OkLen(i + 2)
        BulkEnd(i) ==
            IF i < 0 THEN ErrLen("Incomplete")
            ELSE IF buf[1] = "$" /\ Slice(buf, 1, i) = <<"-", "1">> THEN OkLen(i + 2)
            ELSE LineEnd(FirstCrlfFrom(buf, i + 2))
        Count(i, n, per) ==
            IF ~n.ok THEN ErrLen("Invalid") ELSE SumLengths(buf, i + 2, n.val * per)
        Header(i, per) ==
            IF i < 0 THEN ErrLen("Incomplete")
            ELSE Count(i, ParseUsize(from_utf8_lossy(Slice(buf, 1, i))), per)
    IN  IF Len(buf) < 3 THEN ErrLen("Incomplete")
        ELSE CASE buf[1] \in {"+", "-", ":", "_", "#", ","} ->
                      LineEnd(FirstCrlfFrom(buf, 1))
               [] buf[1] \in {"$", "!"} -> BulkEnd(FirstCrlfFrom(buf, 1))
               [] buf[1] \in {"*", "~"} -> Header(FirstCrlfFrom(buf, 1), 1)
               [] buf[1] = "%" -> Header(FirstCrlfFrom(buf, 1), 2)
               [] OTHER -> ErrLen("InvalidFrameType")

\* the loop of RespArray::decode and RespSet::decode: n frames decoded in turn,
\* each from what the one before left
DraftChildren(buf, n) ==
    IF n = 0 THEN [err |-> "None", frames |-> <<>>, buf |-> buf]
    ELSE LET Rest(f, r) ==
                 IF r.err # "None" THEN r
                 ELSE [err |-> "None", frames |-> <<f>> \o r.frames, buf |-> r.buf]
             First(c) ==
                 IF c.err # "None" THEN [err |-> c.err, frames |-> <<>>, buf |-> c.buf]
                 ELSE Rest(c.frame, DraftChildren(c.buf, n - 1))
         IN  First(frame_rs_decode(buf))

\* the loop of RespMap::decode: a SimpleString key and then a frame, n times
DraftEntries(buf, n) ==
    IF n = 0 THEN [err |-> "None", entries |-> <<>>, buf |-> buf]
    ELSE LET Rest(k, v, r) ==
                 IF r.err # "None" THEN r
                 ELSE [err |-> "None", entries |-> <<<<k, v>>>> \o r.entries, buf |-> r.buf]
             Value(k, v) ==
                 IF v.err # "None" THEN [err |-> v.err, entries |-> <<>>, buf |-> v.buf]
                 ELSE Rest(k, v.frame, DraftEntries(v.buf, n - 1))
             Key(k) ==
                 IF k.err # "None" THEN [err |-> k.err, entries |-> <<>>, buf |-> buf]
                 ELSE Value(k.data, frame_rs_decode(k.buf))
         IN  Key(extract_data(buf, <<"+">>))

\* RespFrame::decode of frame.rs; an aggregate calls expect_length first and
\* returns Incomplete when the buffer is shorter
frame_rs_decode(buf) ==
    LET Children(c) ==
            IF c.err # "None" THEN DraftErr(c.err, c.buf)
            ELSE DraftOk(IF buf[1] = "*" THEN RespArray(c.frames)
                         ELSE RespSet(InsertAll(<<>>, c.frames)), c.buf)
        Entries(c) ==
            IF c.err # "None" THEN DraftErr(c.err, c.buf)
            ELSE DraftOk(RespMap(InsertEntries(<<>>, c.entries)), c.buf)
        Header(h) ==
            IF h.err # "None" THEN DraftErr(h.err, buf)
            ELSE IF buf[1] = "%" THEN Entries(DraftEntries(h.buf, h.nth))
            ELSE Children(DraftChildren(h.buf, h.nth))
        Guarded(total) ==
            IF total.err # "None" THEN DraftErr(total.err, buf)
            ELSE IF Len(buf) < total.len THEN DraftErr("Incomplete", buf)
            ELSE Header(extract_length(buf, <<buf[1]>>))
    IN  IF buf = <<>> THEN DraftErr("Incomplete", buf)
        ELSE CASE buf[1] \in {"+", "-", ":", "_", "#", ","} -> line_rs_decode(buf)
               [] buf[1] \in {"$", "!"} -> bulk_string_rs_decode(buf, buf[1])
               [] buf[1] \in {"*", "%", "~"} -> Guarded(frame_rs_expect_length(buf))
               [] OTHER -> DraftErr("InvalidFrameType", buf)

(***************************************************************************)
(* The backend (the crate's Backend, whose file is not among the sources:  *)
(* modelled from the specification, sections 3.3 and 4.6).  A table is a   *)
(* function from the keys present to what they hold.                       *)
(***************************************************************************)
EmptyTable == [k \in {} |-> NilFrame]

\* a new Backend: three empty tables
Backend_new == [map |-> EmptyTable, hmap |-> EmptyTable, set |-> EmptyTable]

\* get(key) -> Option<Frame>: [some, frame]
Backend_get(b, key) ==
    IF key \in DOMAIN b.map THEN [some |-> TRUE, frame |-> b.map[key]]
    ELSE [some |-> FALSE, frame |-> NilFrame]

\* set(key, frame): unconditional insert or replace
Backend_set(b, key, value) ==
    [b EXCEPT !.map = [k \in DOMAIN b.map \cup {key} |->
                           IF k = key THEN value ELSE b.map[k]]]

\* hget(key, field) -> Option<Frame>
Backend_hget(b, key, field) ==
    IF key \in DOMAIN b.hmap /\ field \in DOMAIN b.hmap[key]
    THEN [some |-> TRUE, frame |-> b.hmap[key][field]]
    ELSE [some |-> FALSE, frame |-> NilFrame]

\* the fields of the hash at key, none when the key is absent
HashOf(b, key) == IF key \in DOMAIN b.hmap THEN b.hmap[key] ELSE EmptyTable

\* hset(key, field, frame): the hash is created on the first write
Backend_hset(b, key, field, value) ==
    LET Put(hash) ==
            [f \in DOMAIN hash \cup {field} |-> IF f = field THEN value ELSE hash[f]]
    IN  [b EXCEPT !.hmap = [k \in DOMAIN b.hmap \cup {key} |->
                                IF k = key THEN Put(HashOf(b, key)) ELSE b.hmap[k]]]

\* hgetall(key) -> Option<the hash at key>
Backend_hgetall(b, key) ==
    [some |-> key \in DOMAIN b.hmap, hash |-> HashOf(b, key)]

\* the members of the set at key, none when the key is absent
SetOf(b, key) == IF key \in DOMAIN b.set THEN b.set[key] ELSE {}

\* set.entry(key).or_default() followed by set.insert(member) for each member: the
\* set is created by the entry call, also when no member follows
Backend_sadd(b, key, members) ==
    LET Put(old) == old \cup {members[i] : i \in DOMAIN members}
    IN  [b EXCEPT !.set = [k \in DOMAIN b.set \cup {key} |->
                               IF k = key THEN Put(SetOf(b, key)) ELSE b.set[k]]]

\* set.get(key) followed by contains(member): [some, contains]
Backend_sismember(b, key, member) ==
    [some |-> key \in DOMAIN b.set, contains |-> member \in SetOf(b, key)]

\* the orders in which iter() may walk a hash: the table is partitioned by the
\* hash of the field, so any order of its fields
IterOrders(hash) ==
    {o \in [1..Cardinality(DOMAIN hash) -> DOMAIN hash] :
         \A i, j \in DOMAIN o : i # j => o[i] # o[j]}

(***************************************************************************)
(* Commands (src/cmd).  A command is the record of the fields of all the   *)
(* command structs, those a struct lacks left as in NilCommand; the result *)
(* of a conversion is [err, cmd], err "None" for Ok and otherwise the      *)
(* CommandError variant.                                                   *)
(***************************************************************************)
NilCommand ==
    [name |-> "Nil", key |-> <<>>, field |-> <<>>, value |-> NilFrame, sort |-> FALSE,
     fields |-> <<>>, members |-> <<>>, member |-> NilFrame, message |-> <<>>]

CmdOk(c) == [err |-> "None", cmd |-> c]
CmdErr(e) == [err |-> e, cmd |-> NilCommand]

Get(key) == [NilCommand EXCEPT !.name = "Get", !.key = key]
Set(key, value) == [NilCommand EXCEPT !.name = "Set", !.key = key, !.value = value]
HGet(key, field) == [NilCommand EXCEPT !.name = "HGet", !.key = key, !.field = field]
HSet(key, field, value) ==
    [NilCommand EXCEPT !.name = "HSet", !.key = key, !.field = field, !.value = value]
HGetAll(key, sort) == [NilCommand EXCEPT !.name = "HGetAll", !.key = key, !.sort = sort]
HMGet(key, fields) == [NilCommand EXCEPT !.name = "HMGet", !.key = key, !.fields = fields]
SAdd(key, members) == [NilCommand EXCEPT !.name = "SAdd", !.key = key, !.members = members]
SIsMember(key, member) ==
    [NilCommand EXCEPT !.name = "SIsMember", !.key = key, !.member = member]
Echo(message) == [NilCommand EXCEPT !.name = "Echo", !.message = message]

\* static ref RESP_OK
RESP_OK == SimpleString(<<"O", "K">>)

UpperCase == <<"A", "B", "C", "D", "E", "G", "H", "I", "L", "M", "O", "R", "S", "T">>
LowerCase == <<"a", "b", "c", "d", "e", "g", "h", "i", "l", "m", "o", "r", "s", "t">>

\* <[u8]>::to_ascii_lowercase
to_ascii_lowercase(bytes) ==
    [i \in DOMAIN bytes |->
        IF \E n \in DOMAIN UpperCase : UpperCase[n] = bytes[i]
        THEN LowerCase[CHOOSE n \in DOMAIN UpperCase : UpperCase[n] = bytes[i]]
        ELSE bytes[i]]

RECURSIVE IsUtf8(_)
\* whether String::from_utf8 accepts the bytes: ASCII, and U+FFFD as EF BF BD
IsUtf8(bytes) ==
    IF bytes = <<>> THEN TRUE
    ELSE IF Head(bytes) \notin {"xFF", "xEF", "xBF", "xBD"} THEN IsUtf8(Tail(bytes))
    ELSE Len(bytes) >= 3 /\ SubSeq(bytes, 1, 3) = <<"xEF", "xBF", "xBD">>
            /\ IsUtf8(SubSeq(bytes, 4, Len(bytes)))

\* a validation of the name alone: not the code's, used to show that the
\* rejection of a wrong number of arguments rests on the length check
validate_command_NameOnly(frames, key, n_args) ==
    IF frames[1].tag # "BulkString" THEN "InvalidCommand"
    ELSE IF to_ascii_lowercase(frames[1].val) # key THEN "InvalidCommand"
    ELSE "None"

\* whether the build checks integer arithmetic for overflow (the debug profile
\* does, the release profile does not)
VARIABLE overflow_checks

\* fn validate_command, called with one key everywhere: the error, "None" for
\* Ok(()).  The message of InvalidArguments holds frames.len() - keys.len(), an
\* unsigned subtraction: on the empty array it is 0 - 1, a panic with overflow
\* checks, and without them it wraps and the error is returned
validate_command(frames, key, n_args) ==
    IF Len(frames) # 1 + n_args
    THEN IF Len(frames) < 1 /\ overflow_checks THEN "Panic" ELSE "InvalidArguments"
    ELSE IF frames[1].tag # "BulkString" THEN "InvalidCommand"
    ELSE IF to_ascii_lowercase(frames[1].val) # key THEN "InvalidCommand"
    ELSE "None"

\* fn extract_args
extract_args(frames, start) == SubSeq(frames, start + 1, Len(frames))

\* match args.next() { Some(RespFrame::BulkString(x)) => String::from_utf8(x.0)?,
\* _ => InvalidArguments }, as the error it ends in or "None"
StringArg(args, i) ==
    IF i > Len(args) \/ args[i].tag # "BulkString" THEN "InvalidArguments"
    ELSE IF ~IsUtf8(args[i].val) THEN "Utf8Error"
    ELSE "None"

\* impl TryFrom<RespArray> for Get
Get_try_from(arr) ==
    LET Key(args, e) == IF e # "None" THEN CmdErr(e) ELSE CmdOk(Get(args[1].val))
        Args(args) == Key(args, StringArg(args, 1))
        Valid(v) ==
            IF v # "None" THEN CmdErr(v)
            ELSE IF Len(arr) # 2 THEN CmdErr("InvalidCommand")
            ELSE Args(extract_args(arr, 1))
    IN  Valid(validate_command(arr, <<"g", "e", "t">>, 1))

\* impl TryFrom<RespArray> for Set
Set_try_from(arr) ==
    LET Key(args, e) ==
            IF e # "None" THEN CmdErr(e)
            ELSE IF Len(args) < 2 THEN CmdErr("InvalidArguments")
            ELSE CmdOk(Set(args[1].val, args[2]))
        Args(args) == Key(args, StringArg(args, 1))
        Valid(v) == IF v # "None" THEN CmdErr(v) ELSE Args(extract_args(arr, 1))
    IN  Valid(validate_command(arr, <<"s", "e", "t">>, 2))

\* impl TryFrom<RespArray> for HGet
HGet_try_from(arr) ==
    LET Field(args, e) ==
            IF e # "None" THEN CmdErr(e) ELSE CmdOk(HGet(args[1].val, args[2].val))
        Key(args, e) == IF e # "None" THEN CmdErr(e) ELSE Field(args, StringArg(args, 2))
        Args(args) == Key(args, StringArg(args, 1))
        Valid(v) == IF v # "None" THEN CmdErr(v) ELSE Args(extract_args(arr, 1))
    IN  Valid(validate_command(arr, <<"h", "g", "e", "t">>, 2))

\* impl TryFrom<RespArray> for HSet
HSet_try_from(arr) ==
    LET Field(args, e) ==
            IF e # "None" THEN CmdErr(e)
            ELSE IF Len(args) < 3 THEN CmdErr("InvalidArguments")
            ELSE CmdOk(HSet(args[1].val, args[2].val, args[3]))
        Key(args, e) == IF e # "None" THEN CmdErr(e) ELSE Field(args, StringArg(args, 2))
        Args(args) == Key(args, StringArg(args, 1))
        Valid(v) == IF v # "None" THEN CmdErr(v) ELSE Args(extract_args(arr, 1))
    IN  Valid(validate_command(arr, <<"h", "s", "e", "t">>, 3))

\* impl TryFrom<RespArray> for HGetAll: the command is built with sort: false
HGetAll_try_from(arr) ==
    LET Key(args, e) ==
            IF e # "None" THEN CmdErr(e) ELSE CmdOk(HGetAll(args[1].val, FALSE))
        Args(args) == Key(args, StringArg(args, 1))
        Valid(v) == IF v # "None" THEN CmdErr(v) ELSE Args(extract_args(arr, 1))
    IN  Valid(validate_command(arr, <<"h", "g", "e", "t", "a", "l", "l">>, 1))

RECURSIVE FieldArgs(_, _)
\* the loop of HMGet::try_from over the arguments from the i-th on: a BulkString
\* is pushed through String::from_utf8(..)?, anything else is InvalidArguments;
\* the error the loop ends in, or "None"
FieldArgs(args, i) ==
    IF i > Len(args) THEN "None"
    ELSE IF StringArg(args, i) # "None" THEN StringArg(args, i)
    ELSE FieldArgs(args, i + 1)

\* impl TryFrom<RespArray> for HMGet: arr.len() - 1 is an unsigned subtraction,
\* and on the empty array what follows it indexes frames[0]
HMGet_try_from(arr) ==
    LET Fields(args, e) ==
            IF e # "None" THEN CmdErr(e)
            ELSE CmdOk(HMGet(args[1].val, [i \in 1..(Len(args) - 1) |-> args[i + 1].val]))
        Key(args, e) == IF e # "None" THEN CmdErr(e) ELSE Fields(args, FieldArgs(args, 2))
        Args(args) == Key(args, StringArg(args, 1))
        Valid(v) == IF v # "None" THEN CmdErr(v) ELSE Args(extract_args(arr, 1))
    IN  IF arr = <<>> THEN CmdErr("Panic")
        ELSE Valid(validate_command(arr, <<"h", "m", "g", "e", "t">>, Len(arr) - 1))

\* the loop of SAdd::try_from: every argument after the key is a BulkString,
\* taken as it is
MemberArgs(args) ==
    IF \E i \in 2..Len(args) : args[i].tag # "BulkString" THEN "InvalidArguments"
    ELSE "None"

\* impl TryFrom<RespArray> for SAdd (src/cmd/set.rs)
SAdd_try_from(arr) ==
    LET Members(args, e) ==
            IF e # "None" THEN CmdErr(e)
            ELSE CmdOk(SAdd(args[1].val, [i \in 1..(Len(args) - 1) |-> args[i + 1]]))
        Key(args, e) == IF e # "None" THEN CmdErr(e) ELSE Members(args, MemberArgs(args))
        Args(args) == Key(args, StringArg(args, 1))
        Valid(v) == IF v # "None" THEN CmdErr(v) ELSE Args(extract_args(arr, 1))
    IN  IF arr = <<>> THEN CmdErr("Panic")
        ELSE Valid(validate_command(arr, <<"s", "a", "d", "d">>, Len(arr) - 1))

\* impl TryFrom<RespArray> for SIsMember (src/cmd/set.rs)
SIsMember_try_from(arr) ==
    LET Member(args) ==
            IF args[2].tag # "BulkString" THEN CmdErr("InvalidArguments")
            ELSE CmdOk(SIsMember(args[1].val, args[2]))
        Key(args, e) == IF e # "None" THEN CmdErr(e) ELSE Member(args)
        Args(args) == Key(args, StringArg(args, 1))
        Valid(v) == IF v # "None" THEN CmdErr(v) ELSE Args(extract_args(arr, 1))
    IN  Valid(validate_command(arr, <<"s", "i", "s", "m", "e", "m", "b", "e", "r">>, 2))

\* impl TryFrom<RespArray> for Echo (src/cmd/echo.rs)
Echo_try_from(arr) ==
    LET Message(args, e) == IF e # "None" THEN CmdErr(e) ELSE CmdOk(Echo(args[1].val))
        Args(args) == Message(args, StringArg(args, 1))
        Valid(v) == IF v # "None" THEN CmdErr(v) ELSE Args(extract_args(arr, 1))
    IN  Valid(validate_command(arr, <<"e", "c", "h", "o">>, 1))

\* impl TryFrom<RespArray> for Command: the name is matched byte for byte
Command_try_from_array(array) ==
    IF array = <<>> \/ array[1].tag # "BulkString" THEN CmdErr("InvalidCommand")
    ELSE CASE array[1].val = <<"g", "e", "t">> -> Get_try_from(array)
           [] array[1].val = <<"s", "e", "t">> -> Set_try_from(array)
           [] array[1].val = <<"h", "g", "e", "t">> -> HGet_try_from(array)
           [] array[1].val = <<"h", "s", "e", "t">> -> HSet_try_from(array)
           [] array[1].val = <<"h", "g", "e", "t", "a", "l", "l">> ->
                  HGetAll_try_from(array)
           [] OTHER -> CmdErr("InvalidCommand")

\* impl TryFrom<RespFrame> for Command
Command_try_from(frame) ==
    IF frame.tag = "Array" THEN Command_try_from_array(frame.val)
    ELSE CmdErr("InvalidCommand")

(***************************************************************************)
(* Executors (src/cmd/map.rs, src/cmd/hmap.rs).  An execution gives        *)
(* [frame, backend]: the response and the backend after it.                *)
(***************************************************************************)
\* impl CommandExecutor for Get
Get_execute(cmd, b) ==
    LET Found(r) == IF r.some THEN r.frame ELSE RespNull
    IN  [frame |-> Found(Backend_get(b, cmd.key)), backend |-> b]

\* a Set that keeps the value of a key already present: not the code's, used to
\* show that the most-recent-SET property rests on the replacement in Set::execute
Set_execute_KeepFirst(cmd, b) ==
    [frame |-> RESP_OK,
     backend |-> IF cmd.key \in DOMAIN b.map THEN b ELSE Backend_set(b, cmd.key, cmd.value)]

\* impl CommandExecutor for Set
Set_execute(cmd, b) ==
    [frame |-> RESP_OK, backend |-> Backend_set(b, cmd.key, cmd.value)]

\* an HGET that reaches the hash through entry(key).or_default(), which creates
\* it: not the code's, used to show that a read of a missing key creates
\* nothing because HGet::execute only calls backend.hget
HGet_execute_OrDefault(cmd, b) ==
    LET Found(r) == IF r.some THEN r.frame ELSE RespNull
    IN  [frame |-> Found(Backend_hget(b, cmd.key, cmd.field)),
         backend |-> [b EXCEPT !.hmap = [k \in DOMAIN b.hmap \cup {cmd.key} |->
                                              HashOf(b, k)]]]

\* impl CommandExecutor for HGet
HGet_execute(cmd, b) ==
    LET Found(r) == IF r.some THEN r.frame ELSE RespNull
    IN  [frame |-> Found(Backend_hget(b, cmd.key, cmd.field)), backend |-> b]

\* an HSET that writes the value to the string table as well: not the code's,
\* used to show that the other tables are left alone by HSet::execute
HSet_execute_AlsoSet(cmd, b) ==
    [frame |-> RESP_OK,
     backend |-> Backend_set(Backend_hset(b, cmd.key, cmd.field, cmd.value), cmd.key,
                             cmd.value)]

\* impl CommandExecutor for HSet
HSet_execute(cmd, b) ==
    [frame |-> RESP_OK, backend |-> Backend_hset(b, cmd.key, cmd.field, cmd.value)]

\* data.sort_by(|a, b| a.0.cmp(&b.0)) on pairs of distinct fields
sort_by_field(data) == InsertEntries(<<>>, data)

RECURSIVE Interleave(_)
\* flat_map(|(k, v)| vec![BulkString::new(k).into(), v])
Interleave(data) ==
    IF data = <<>> THEN <<>>
    ELSE <<BulkString(Head(data)[1]), Head(data)[2]>> \o Interleave(Tail(data))

\* impl CommandExecutor for HGetAll; order is the order value.iter() walks the hash in
HGetAll_execute(cmd, b, order) ==
    LET Sorted(data) == IF cmd.sort THEN sort_by_field(data) ELSE data
        Found(r) ==
            IF r.some
            THEN RespArray(Interleave(Sorted(
                     [i \in DOMAIN order |-> <<order[i], r.hash[order[i]]>>])))
            ELSE RespNull
    IN  [frame |-> Found(Backend_hgetall(b, cmd.key)), backend |-> b]

RECURSIVE HMGet_data(_, _, _)
\* the loop of HMGet::execute: one hget and one push for each field, in order
HMGet_data(b, key, fields) ==
    LET Found(r) == IF r.some THEN r.frame ELSE RespNull
    IN  IF fields = <<>> THEN <<>>
        ELSE <<Found(Backend_hget(b, key, Head(fields)))>>
                 \o HMGet_data(b, key, Tail(fields))

RECURSIVE HMGet_data_SkipMissing(_, _, _)
\* the loop of an HMGET that pushes nothing for a missing field: not the code's
HMGet_data_SkipMissing(b, key, fields) ==
    LET Found(r) == IF r.some THEN <<r.frame>> ELSE <<>>
    IN  IF fields = <<>> THEN <<>>
        ELSE Found(Backend_hget(b, key, Head(fields)))
                 \o HMGet_data_SkipMissing(b, key, Tail(fields))

\* an HMGET without the None arm of the match: not the code's, used to show that
\* the length and the order of the HMGET response rest on HMGet::execute
HMGet_execute_SkipMissing(cmd, b) ==
    [frame |-> RespArray(HMGet_data_SkipMissing(b, cmd.key, cmd.fields)), backend |-> b]

\* impl CommandExecutor for HMGet
HMGet_execute(cmd, b) ==
    [frame |-> RespArray(HMGet_data(b, cmd.key, cmd.fields)), backend |-> b]

\* impl CommandExecutor for SAdd (src/cmd/set.rs)
SAdd_execute(cmd, b) ==
    [frame |-> RESP_OK, backend |-> Backend_sadd(b, cmd.key, cmd.members)]

\* a SISMEMBER that answers 1 for every member of an existing set: not the
\* code's, used to show that the answer rests on set.contains in SIsMember::execute
SIsMember_execute_AnyMember(cmd, b) ==
    LET Found(r) == IF r.some THEN Integer(1) ELSE Integer(0)
    IN  [frame |-> Found(Backend_sismember(b, cmd.key, cmd.member)), backend |-> b]

\* impl CommandExecutor for SIsMember (src/cmd/set.rs)
SIsMember_execute(cmd, b) ==
    LET Found(r) == IF r.some /\ r.contains THEN Integer(1) ELSE Integer(0)
    IN  [frame |-> Found(Backend_sismember(b, cmd.key, cmd.member)), backend |-> b]

\* impl CommandExecutor for Echo (src/cmd/echo.rs)
Echo_execute(cmd, b) == [frame |-> BulkString(cmd.message), backend |-> b]

\* enum_dispatch(CommandExecutor) for Command
Command_execute(cmd, b, order) ==
    CASE cmd.name = "Get" -> Get_execute(cmd, b)
      [] cmd.name = "Set" -> Set_execute(cmd, b)
      [] cmd.name = "HGet" -> HGet_execute(cmd, b)
      [] cmd.name = "HSet" -> HSet_execute(cmd, b)
      [] cmd.name = "HGetAll" -> HGetAll_execute(cmd, b, order)

\* fn frame_handler: [err, frame, backend]; a conversion error is returned by `?`
\* and nothing is executed
frame_handler(frame, b, order) ==
    LET Run(r) == [err |-> "None", frame |-> r.frame, backend |-> r.backend]
        Parsed(c) ==
            IF c.err # "None" THEN [err |-> c.err, frame |-> NilFrame, backend |-> b]
            ELSE Run(Command_execute(c.cmd, b, order))
    IN  Parsed(Command_try_from(frame))

\* the orders value.iter() may take when the frame is handled: those of the hash
\* the frame's first argument names
OrdersFor(frame, b) ==
    IF frame.tag = "Array" /\ Len(frame.val) >= 2 /\ frame.val[2].tag = "BulkString"
    THEN IterOrders(HashOf(b, frame.val[2].val))
    ELSE {<<>>}

(***************************************************************************)
(* The frames the codec runs draw.                                         *)
(***************************************************************************)
\* every sequence over S of length at most n
SeqsUpTo(S, n) == UNION {[1..k -> S] : k \in 0..n}

\* bulk payloads: a letter, CR, LF and a byte that is not UTF-8
PayloadBytes == {"a", CR, LF, "xFF"}
Payloads == SeqsUpTo(PayloadBytes, MaxPayloadLen)

\* simple texts and map keys: UTF-8 without CR or LF
TextBytes == {"a", "b"}
Texts == SeqsUpTo(TextBytes, MaxPayloadLen)

\* i64::MIN and i64::MAX
I64Min == [neg |-> TRUE, digits |-> I64MinDigits]
I64Max == [neg |-> FALSE, digits |-> I64MaxDigits]

I64Vals == {I64(-12), I64(-1), I64(0), I64(7), I64Min, I64Max}

ScalarFrames ==
    {SimpleString(t) : t \in Texts} \cup {SimpleError(t) : t \in Texts}
        \cup {BulkError(b) : b \in Payloads} \cup {BulkString(b) : b \in Payloads}
        \cup {IntegerOf(n) : n \in I64Vals} \cup {Boolean(b) : b \in BOOLEAN}
        \cup {RespDouble(RespDouble_new(h)) : h \in F64Vals}
        \cup {NullBulkString, RespNullArray, RespNull}

\* the children of the aggregates drawn: scalars and aggregates of one child
LeafFrames == {BulkString(<<"a">>), Integer(-1), RespNull}
ChildFrames ==
    LeafFrames \cup {RespArray(<<BulkString(<<"a">>)>>),
                     RespMap(<<<<<<"a">>, RespNull>>>>), RespSet(<<Integer(-1)>>)}

AggregateFrames ==
    {RespArray(fs) : fs \in SeqsUpTo(ChildFrames, MaxElems)}
        \cup {RespSet(InsertAll(<<>>, fs)) : fs \in SeqsUpTo(ChildFrames, MaxElems)}
        \cup {RespMap(InsertEntries(<<>>, es)) :
                  es \in SeqsUpTo({t \in Texts : Len(t) = 1} \X LeafFrames, MaxElems)}

Frames == ScalarFrames \cup AggregateFrames

\* the frames of the runs that put several frames on the wire
StreamFrames ==
    {SimpleString(<<"a">>), Integer(7), RespNull, BulkString(<<"a">>),
     RespArray(<<BulkString(<<"a">>), RespNull>>)}

FrameSeqs ==
    {<<f>> : f \in Frames}
        \cup UNION {[1..k -> StreamFrames] : k \in 2..MaxFrames}

(***************************************************************************)
(* State.                                                                  *)
(*   frames   the frames whose encodings the peer sends, in order          *)
(*   wire     the bytes sent and not yet in the buffer                     *)
(*   buf      the BytesMut the decoder is called on                        *)
(*   op       the last step: "init", "feed", "decode", "expect_length"     *)
(*   before   buf as it was when the last call (decode, expect_length)     *)
(*            was made                                                     *)
(*   res      the result of the last decode call                           *)
(*   el       the result of the last expect_length call                    *)
(*   prevErr  the err of the decode call before the last one               *)
(*   decoded  the frames the decode calls returned, in call order          *)
(*   ncalls   the number of decode calls made                              *)
(*   nfeeds   the number of deliveries made                                *)
(*   atOnce   whether every decode call was made with the whole wire in    *)
(*            the buffer                                                   *)
(* and of the server:                                                      *)
(*   backend   the Backend every connection shares                         *)
(*   handled   the frames given to frame_handler, in call order            *)
(*   results   what frame_handler returned for each of them: [err, frame]  *)
(*   out       the frames sent back on the connection, in order            *)
(*   conn      the connection's task: "open", "closed" (Ok(())), "error"   *)
(*             (Err), "panicked"                                           *)
(*   connErr   the error process_stream returned, "None" while there is    *)
(*             none                                                        *)
(*   readable  the is_readable flag of Framed: the buffer may hold a frame *)
(*   eof       the eof flag of Framed: the last read returned no byte      *)
(* and of the commands executed as the unit tests execute them:            *)
(*   calls     the command values execute was called on, in call order     *)
(*   replies   the frame each of the calls returned                        *)
(*   prior     the backend as it was when the last of the calls was made   *)
(* and of the conversions called on frames:                                *)
(*   parsed    the last conversion: the type converted to, the frame given *)
(*             and the result [err, cmd]                                   *)
(* and of the sets and maps built by insertion:                            *)
(*   items     what is inserted, in order: frames into a RespSet, (key,    *)
(*             value) pairs into a RespMap                                 *)
(*   built     the RespSet or RespMap frame as the insertions made so far  *)
(*             leave it                                                    *)
(*   nins      the number of insertions made                               *)
(*   encoded   the bytes encode returned for built, empty before the call  *)
(* and of the commands executed by concurrent tasks:                       *)
(*   pc        where HMGet::execute and SAdd::execute stand, and the       *)
(*             members the SADD has inserted                               *)
(*   data      the Vec HMGet::execute has filled so far                    *)
(*   views     what the hash held at each point while the HMGET ran        *)
(*   todo      the HSET commands the writing connection has yet to execute *)
(*   seen      what each SISMEMBER was asked and answered                  *)
(* and of a function called on its own:                                    *)
(*   callee    the function called, "None" before the call                 *)
(*   arg       its arguments                                               *)
(*   ret       what the call ended in: [kind, val]                         *)
(*   depth     the frames of the function on the stack                     *)
(***************************************************************************)
VARIABLES frames, wire, buf, op, before, res, el, prevErr, decoded, ncalls, nfeeds,
          atOnce, backend, handled, results, out, conn, connErr, readable, eof,
          calls, replies, prior, parsed, items, built, nins, encoded,
          pc, data, views, todo, seen, callee, arg, ret, depth

codecVars ==
    <<frames, wire, buf, op, before, res, el, prevErr, decoded, ncalls, nfeeds, atOnce>>

serverVars == <<backend, handled, results, out, conn, connErr, readable, eof>>

unitVars == <<calls, replies, prior, parsed, overflow_checks>>

buildVars == <<items, built, nins, encoded>>

concVars == <<pc, data, views, todo, seen>>

\* a function called on its own: the function, its arguments, what it
\* returned and the frames of it on the stack
callVars == <<callee, arg, ret, depth>>

vars == <<codecVars, serverVars, unitVars, buildVars, concVars, callVars>>

\* the codec variables before any call, the buffer empty
CodecIdle ==
    /\ buf = <<>>
    /\ op = "init"
    /\ before = <<>>
    /\ res = Err("NotCalled")
    /\ el = ErrLen("NotCalled")
    /\ prevErr = "NotCalled"
    /\ decoded = <<>>
    /\ ncalls = 0
    /\ nfeeds = 0
    /\ atOnce = TRUE

\* the server before any connection is served
ServerIdle ==
    /\ backend = Backend_new
    /\ handled = <<>>
    /\ results = <<>>
    /\ out = <<>>
    /\ conn = "open"
    /\ connErr = "None"
    /\ readable = FALSE
    /\ eof = FALSE

\* no command executed yet
UnitIdle ==
    /\ calls = <<>>
    /\ replies = <<>>
    /\ prior = Backend_new
    /\ parsed = [type |-> "None", input |-> NilFrame, err |-> "NotCalled",
                 cmd |-> NilCommand]
    /\ overflow_checks = TRUE

\* nothing built yet
BuildIdle ==
    /\ items = <<>>
    /\ built = NilFrame
    /\ nins = 0
    /\ encoded = <<>>

\* no command is executed by concurrent tasks
ConcIdle ==
    /\ pc = [hmget |-> "done", sadd |-> "done", added |-> 0]
    /\ data = <<>>
    /\ views = {}
    /\ todo = <<>>
    /\ seen = <<>>

\* no function is called on its own
CallIdle ==
    /\ callee = "None"
    /\ arg = <<>>
    /\ ret = [kind |-> "NotCalled", val |-> 0]
    /\ depth = 0

CodecInit ==
    /\ frames \in FrameSeqs
    /\ wire = EncodeAll(frames)
    /\ CodecIdle
    /\ ServerIdle
    /\ UnitIdle
    /\ BuildIdle
    /\ ConcIdle
    /\ CallIdle

\* the peer's bytes arrive (buf.extend_from_slice): the first delivery is any
\* k bytes of the wire, a later one is all that is left
Feed(k) ==
    /\ res.err # "Panic"
    /\ el.err # "Panic"
    /\ k \in 1..Len(wire)
    /\ nfeeds > 0 => k = Len(wire)
    /\ buf' = buf \o SubSeq(wire, 1, k)
    /\ wire' = SubSeq(wire, k + 1, Len(wire))
    /\ nfeeds' = nfeeds + 1
    /\ op' = "feed"
    /\ UNCHANGED <<frames, before, res, el, prevErr, decoded, ncalls, atOnce>>
    /\ UNCHANGED serverVars
    /\ UNCHANGED unitVars
    /\ UNCHANGED buildVars
    /\ UNCHANGED concVars
    /\ UNCHANGED callVars

\* RespFrame::decode(&mut buf) (src/resp/decode.rs): the buffer is left as it was
Decode ==
    /\ res.err # "Panic"
    /\ el.err # "Panic"
    /\ ncalls < MaxDecodes
    /\ res' = RespFrame_decode(buf)
    /\ prevErr' = res.err
    /\ before' = buf
    /\ buf' = buf
    /\ decoded' = IF res'.err = "None" THEN Append(decoded, res'.frame) ELSE decoded
    /\ ncalls' = ncalls + 1
    /\ atOnce' = (atOnce /\ wire = <<>>)
    /\ op' = "decode"
    /\ UNCHANGED <<frames, wire, el, nfeeds>>
    /\ UNCHANGED serverVars
    /\ UNCHANGED unitVars
    /\ UNCHANGED buildVars
    /\ UNCHANGED concVars
    /\ UNCHANGED callVars

\* RespFrame::expect_length(&buf): takes &[u8]
ExpectLength ==
    /\ res.err # "Panic"
    /\ el.err # "Panic"
    /\ op = "feed"
    /\ el' = RespFrame_expect_length(buf)
    /\ before' = buf
    /\ op' = "expect_length"
    /\ UNCHANGED <<frames, wire, buf, res, prevErr, decoded, ncalls, nfeeds, atOnce>>
    /\ UNCHANGED serverVars
    /\ UNCHANGED unitVars
    /\ UNCHANGED buildVars
    /\ UNCHANGED concVars
    /\ UNCHANGED callVars

CodecNext ==
    \/ \E k \in 1..Len(wire) : Feed(k)
    \/ Decode
    \/ ExpectLength

\* the codec driven over every frame sequence and every fragmentation of it
SpecCodec == CodecInit /\ [][CodecNext]_vars

(***************************************************************************)
(* The codec driven over bytes that need not be the encoding of a frame.   *)
(***************************************************************************)
\* a one-line input: the prefix, the text and CRLF
Line(prefix, text) == <<prefix>> \o text \o CRLF

\* a bulk input: the prefix, the declared length as written, CRLF, the bytes
\* present and CRLF
Bulk(prefix, declared, present) == <<prefix>> \o declared \o CRLF \o present \o CRLF

\* the null sentinels, and the headers and texts next to them
NullInputs ==
    {Line("*", <<"-", "1">>), Line("$", <<"-", "1">>), Line("_", <<>>),
     Line("*", <<"-", "2">>), Line("$", <<"-", "2">>), Line("_", <<"x">>),
     Line("*", <<"0">>), Bulk("$", <<"0">>, <<>>), Bulk("!", <<"0">>, <<>>)}

\* bulk strings and bulk errors whose declared length is, and is not, the
\* number of bytes present
DeclaredLengths == {<<"0">>, <<"1">>, <<"2">>, <<"3">>}
PresentBytes == {<<>>, <<"a">>, <<LF>>, <<"a", "b">>, <<CR, "a">>}
BulkInputs ==
    {Bulk(p, d, b) : p \in {"$", "!"}, d \in DeclaredLengths, b \in PresentBytes}

\* integer texts: the encodings of the i64 drawn, texts one beyond i64::MIN and
\* i64::MAX, and texts that are no number
I64Beyond ==
    {<<"-">> \o SubSeq(I64MinDigits, 1, 18) \o <<"9">>,
     <<"+">> \o SubSeq(I64MaxDigits, 1, 18) \o <<"8">>,
     SubSeq(I64MaxDigits, 1, 18) \o <<"8">>,
     <<"1">> \o I64MaxDigits}
IntegerInputs ==
    {i64_encode(n) : n \in I64Vals}
        \cup {Line(":", t) : t \in I64Beyond}
        \cup {Line(":", <<>>), Line(":", <<"+">>), Line(":", <<"-", "0">>),
              Line(":", <<"7">>), Line(":", <<"a">>)}

\* aggregate headers whose children are missing, a map whose key slot holds
\* no SimpleString or whose value is missing, bulk headers with no payload
AggregateInputs ==
    {Line("*", <<"1">>), Line("~", <<"1">>), Line("%", <<"1">>),
     Line("%", <<"1">>) \o Line(":", <<"7">>) \o Line("_", <<>>),
     Line("%", <<"1">>) \o Line("+", <<"a">>),
     Line("%", <<"1">>) \o Line("+", <<"a">>) \o Line("_", <<>>),
     Line("$", <<"3">>), Line("!", <<"3">>)}

ByteInputs == NullInputs \cup BulkInputs \cup IntegerInputs \cup AggregateInputs

BytesInit ==
    /\ frames = <<>>
    /\ wire \in ByteInputs
    /\ CodecIdle
    /\ ServerIdle
    /\ UnitIdle
    /\ BuildIdle
    /\ ConcIdle
    /\ CallIdle

\* the codec driven over every input of ByteInputs and every fragmentation of it
SpecBytes == BytesInit /\ [][CodecNext]_vars

(***************************************************************************)
(* Sets and maps built by insertion and then encoded (src/resp/mod.rs,     *)
(* src/resp/encode.rs): RespSet is a BTreeSet<RespFrame>, RespMap a        *)
(* BTreeMap<String, RespFrame>.                                            *)
(***************************************************************************)
\* the frames inserted into sets: every variant, two of them twice
BuildFrames ==
    {SimpleString(<<"a">>), SimpleError(<<"a">>), BulkError(<<"a">>), Integer(7),
     Integer(-1), BulkString(<<"a">>), BulkString(<<>>), NullBulkString,
     RespArray(<<RespNull>>), RespNullArray, RespNull, Boolean(TRUE),
     RespDouble(RespDouble_new(3)), RespMap(<<<<<<"a">>, RespNull>>>>),
     RespSet(<<Integer(-1)>>)}

\* the entries inserted into maps
BuildEntries == {<<"a">>, <<"b">>, <<"a", "b">>} \X {RespNull, Integer(7)}

BuildInit ==
    /\ \/ items \in UNION {[1..n -> BuildFrames] : n \in 1..MaxInserts}
          /\ built = RespSet(<<>>)
       \/ items \in UNION {[1..n -> BuildEntries] : n \in 1..MaxInserts}
          /\ built = RespMap(<<>>)
    /\ nins = 0
    /\ encoded = <<>>
    /\ frames = <<>>
    /\ wire = <<>>
    /\ CodecIdle
    /\ ServerIdle
    /\ UnitIdle
    /\ ConcIdle
    /\ CallIdle

\* set.insert(frame) / map.insert(key, value) through DerefMut
Insert ==
    /\ nins < Len(items)
    /\ op # "encode"
    /\ built' = IF built.tag = "Set"
                 THEN RespSet(BTreeSet_insert(built.val, items[nins + 1]))
                 ELSE RespMap(BTreeMap_insert(built.val, items[nins + 1][1],
                                              items[nins + 1][2]))
    /\ nins' = nins + 1
    /\ op' = "insert"
    /\ UNCHANGED <<frames, wire, buf, before, res, el, prevErr, decoded, ncalls, nfeeds,
                   atOnce, serverVars, unitVars, items, encoded, concVars,
                   callVars>>

\* built.encode()
Encode ==
    /\ op # "encode"
    /\ encoded' = RespFrame_encode(built)
    /\ op' = "encode"
    /\ UNCHANGED <<frames, wire, buf, before, res, el, prevErr, decoded, ncalls, nfeeds,
                   atOnce, serverVars, unitVars, items, built, nins, concVars,
                   callVars>>

BuildNext == Insert \/ Encode

SpecBuild == BuildInit /\ [][BuildNext]_vars

(***************************************************************************)
(* The executor driven frame by frame: frame_handler on the frames a       *)
(* client's requests decode to.                                            *)
(***************************************************************************)
\* the request a client sends for a command: an Array whose first element is
\* the BulkString of the name
Request(name, args) == RespArray(<<BulkString(name)>> \o args)

ExecKeys == {<<"a">>, <<"b">>}
ExecValues == {BulkString(<<"a">>), Integer(7)}

SetRequests ==
    {Request(<<"s", "e", "t">>, <<BulkString(k), v>>) : k \in ExecKeys, v \in ExecValues}
GetRequests == {Request(<<"g", "e", "t">>, <<BulkString(k)>>) : k \in ExecKeys}
HSetRequests ==
    {Request(<<"h", "s", "e", "t">>, <<BulkString(<<"a">>), BulkString(f), Integer(7)>>) :
         f \in ExecKeys}
HGetRequests ==
    {Request(<<"h", "g", "e", "t">>, <<BulkString(<<"a">>), BulkString(<<"a">>)>>)}
HGetAllRequests ==
    {Request(<<"h", "g", "e", "t", "a", "l", "l">>, <<BulkString(k)>>) : k \in ExecKeys}
ValidRequests ==
    SetRequests \cup GetRequests \cup HSetRequests \cup HGetRequests
        \cup HGetAllRequests

\* frames that are no command: not an Array, a first element that is no
\* BulkString, an unknown name, a wrong arity, a key of the wrong kind, a key
\* that is not UTF-8
BadRequests ==
    {SimpleString(<<"a">>),
     RespArray(<<Integer(7)>>),
     Request(<<"d", "e", "l">>, <<BulkString(<<"a">>)>>),
     Request(<<"g", "e", "t">>, <<>>),
     Request(<<"g", "e", "t">>, <<Integer(7)>>),
     Request(<<"g", "e", "t">>, <<BulkString(<<"xFF">>)>>)}

ExecRequests == ValidRequests \cup BadRequests

ExecInit ==
    /\ frames = <<>>
    /\ wire = <<>>
    /\ CodecIdle
    /\ ServerIdle
    /\ UnitIdle
    /\ BuildIdle
    /\ ConcIdle
    /\ CallIdle

\* the call's frame and what it returned are recorded, the backend is as the
\* call left it
Recorded(frame, h) ==
    /\ handled' = Append(handled, frame)
    /\ results' = Append(results, [err |-> h.err, frame |-> h.frame])
    /\ backend' = h.backend

\* frame_handler(frame, &backend)
Handle(frame, order) ==
    /\ Len(handled) < MaxCmds
    /\ Recorded(frame, frame_handler(frame, backend, order))
    /\ op' = "handle"
    /\ UNCHANGED <<frames, wire, buf, before, res, el, prevErr, decoded, ncalls, nfeeds,
                   atOnce, out, conn, connErr, readable, eof>>
    /\ UNCHANGED unitVars
    /\ UNCHANGED buildVars
    /\ UNCHANGED concVars
    /\ UNCHANGED callVars

ExecNext ==
    \E frame \in ExecRequests : \E order \in OrdersFor(frame, backend) :
        Handle(frame, order)

SpecExec == ExecInit /\ [][ExecNext]_vars

(***************************************************************************)
(* The executors called on command values, as the tests of src/cmd call    *)
(* them: cmd.execute(&backend) on a struct built field by field.           *)
(***************************************************************************)
\* CommandExecutor::execute on a value of any of the command structs
CommandExecutor_execute(cmd, b, order) ==
    CASE cmd.name = "HMGet" -> HMGet_execute(cmd, b)
      [] cmd.name = "SAdd" -> SAdd_execute(cmd, b)
      [] cmd.name = "SIsMember" -> SIsMember_execute(cmd, b)
      [] cmd.name = "Echo" -> Echo_execute(cmd, b)
      [] OTHER -> Command_execute(cmd, b, order)

UnitFields == {<<"a">>, <<"b">>}
UnitMembers == {BulkString(<<"a">>), BulkString(<<"b">>)}

\* the field lists of the HMGET values and the member lists of the SADD values:
\* none, one, two and the same one twice
UnitFieldLists ==
    {<<>>, <<<<"a">>>>, <<<<"b">>>>, <<<<"a">>, <<"b">>>>, <<<<"b">>, <<"a">>>>,
     <<<<"b">>, <<"b">>>>}
UnitMemberLists ==
    {<<>>, <<BulkString(<<"a">>)>>, <<BulkString(<<"b">>)>>,
     <<BulkString(<<"a">>), BulkString(<<"b">>)>>,
     <<BulkString(<<"a">>), BulkString(<<"a">>)>>}

\* the hash commands executed: two fields of the hash a, one of the hash b, and
\* HMGET of no, one and two fields, repeated fields among them
UnitHashCommands ==
    {HSet(<<"a">>, f, v) : f \in UnitFields, v \in ExecValues}
        \cup {HSet(<<"b">>, <<"a">>, Integer(7))}
        \cup {HGet(<<"a">>, f) : f \in UnitFields}
        \cup {HMGet(<<"a">>, fs) : fs \in UnitFieldLists}
        \cup {HMGet(<<"b">>, <<<<"a">>>>)}

\* the set commands executed: SADD of no, one and two members, one member twice
\* among them
UnitSetCommands ==
    {SAdd(<<"a">>, ms) : ms \in UnitMemberLists}
        \cup {SAdd(<<"b">>, <<BulkString(<<"a">>)>>)}
        \cup {SIsMember(<<"a">>, m) : m \in UnitMembers}
        \cup {SIsMember(<<"b">>, BulkString(<<"a">>))}

UnitCommands == UnitHashCommands \cup UnitSetCommands

\* the orders value.iter() may take when the command is executed
OrdersOf(cmd, b) == IF cmd.name = "HGetAll" THEN IterOrders(HashOf(b, cmd.key)) ELSE {<<>>}

UnitInit ==
    /\ frames = <<>>
    /\ wire = <<>>
    /\ CodecIdle
    /\ ServerIdle
    /\ UnitIdle
    /\ BuildIdle
    /\ ConcIdle
    /\ CallIdle

\* the call's command and what it returned are recorded, the backend is as the
\* call left it
Called(cmd, r) ==
    /\ calls' = Append(calls, cmd)
    /\ replies' = Append(replies, r.frame)
    /\ prior' = backend
    /\ backend' = r.backend

\* cmd.execute(&backend)
Execute(cmd, order) ==
    /\ Len(calls) < MaxCalls
    /\ Called(cmd, CommandExecutor_execute(cmd, backend, order))
    /\ op' = "execute"
    /\ UNCHANGED <<frames, wire, buf, before, res, el, prevErr, decoded, ncalls, nfeeds,
                   atOnce, handled, results, out, conn, connErr, readable, eof, parsed,
                   overflow_checks>>
    /\ UNCHANGED buildVars
    /\ UNCHANGED concVars
    /\ UNCHANGED callVars

UnitNext ==
    \E cmd \in UnitCommands : \E order \in OrdersOf(cmd, backend) : Execute(cmd, order)

SpecUnit == UnitInit /\ [][UnitNext]_vars

\* the commands executed on the three tables: writes and reads of each table
\* under the key a, which all three tables come to hold, and under the key b
TableWrites ==
    {Set(<<"a">>, Integer(7)), Set(<<"a">>, BulkString(<<"a">>)), Set(<<"b">>, Integer(7)),
     HSet(<<"a">>, <<"a">>, Integer(7)), HSet(<<"a">>, <<"b">>, BulkString(<<"a">>)),
     HSet(<<"b">>, <<"a">>, Integer(7)),
     SAdd(<<"a">>, <<BulkString(<<"a">>)>>),
     SAdd(<<"a">>, <<BulkString(<<"a">>), BulkString(<<"b">>)>>),
     SAdd(<<"b">>, <<BulkString(<<"a">>)>>)}
TableReads ==
    {Get(<<"a">>), Get(<<"b">>), HGet(<<"a">>, <<"a">>), HGet(<<"b">>, <<"a">>),
     HMGet(<<"a">>, <<<<"a">>, <<"b">>>>), HMGet(<<"b">>, <<<<"a">>>>),
     HGetAll(<<"a">>, FALSE), HGetAll(<<"b">>, FALSE),
     SIsMember(<<"a">>, BulkString(<<"a">>)), SIsMember(<<"b">>, BulkString(<<"a">>)),
     Echo(<<"a">>)}
TableCommands == TableWrites \cup TableReads

TablesNext ==
    \E cmd \in TableCommands : \E order \in OrdersOf(cmd, backend) : Execute(cmd, order)

SpecTables == UnitInit /\ [][TablesNext]_vars

(***************************************************************************)
(* The conversions from a frame to a command, called on one frame:         *)
(* Command::try_from(frame) and Type::try_from(array) for each of the      *)
(* command structs.                                                        *)
(***************************************************************************)
\* the names the conversions of src/cmd compare the first element with, each
\* with an argument list its conversion accepts
CommandNames ==
    {<<"g", "e", "t">>, <<"s", "e", "t">>, <<"e", "c", "h", "o">>, <<"h", "g", "e", "t">>,
     <<"h", "s", "e", "t">>, <<"h", "g", "e", "t", "a", "l", "l">>,
     <<"h", "m", "g", "e", "t">>, <<"s", "a", "d", "d">>,
     <<"s", "i", "s", "m", "e", "m", "b", "e", "r">>}

\* the type whose conversion compares the first element with the name
TypeOf(name) ==
    CASE name = <<"g", "e", "t">> -> "Get"
      [] name = <<"s", "e", "t">> -> "Set"
      [] name = <<"e", "c", "h", "o">> -> "Echo"
      [] name = <<"h", "g", "e", "t">> -> "HGet"
      [] name = <<"h", "s", "e", "t">> -> "HSet"
      [] name = <<"h", "g", "e", "t", "a", "l", "l">> -> "HGetAll"
      [] name = <<"h", "m", "g", "e", "t">> -> "HMGet"
      [] name = <<"s", "a", "d", "d">> -> "SAdd"
      [] name = <<"s", "i", "s", "m", "e", "m", "b", "e", "r">> -> "SIsMember"
      [] OTHER -> "None"

CommandTypes == {TypeOf(name) : name \in CommandNames}

\* T::try_from(array) for the command struct T
Type_try_from(type, arr) ==
    CASE type = "Get" -> Get_try_from(arr)
      [] type = "Set" -> Set_try_from(arr)
      [] type = "Echo" -> Echo_try_from(arr)
      [] type = "HGet" -> HGet_try_from(arr)
      [] type = "HSet" -> HSet_try_from(arr)
      [] type = "HGetAll" -> HGetAll_try_from(arr)
      [] type = "HMGet" -> HMGet_try_from(arr)
      [] type = "SAdd" -> SAdd_try_from(arr)
      [] type = "SIsMember" -> SIsMember_try_from(arr)

\* an argument list the conversion of the type accepts
GoodArgs(type) ==
    CASE type \in {"Get", "Echo", "HGetAll"} -> <<BulkString(<<"a">>)>>
      [] type = "Set" -> <<BulkString(<<"a">>), Integer(7)>>
      [] type \in {"HGet", "SAdd", "SIsMember"} ->
             <<BulkString(<<"a">>), BulkString(<<"b">>)>>
      [] type = "HSet" -> <<BulkString(<<"a">>), BulkString(<<"b">>), Integer(7)>>
      [] type = "HMGet" -> <<BulkString(<<"a">>), BulkString(<<"b">>), BulkString(<<"a">>)>>
      [] OTHER -> <<BulkString(<<"a">>)>>

\* the name in upper case, and with its first letter only in upper case
to_ascii_uppercase(bytes) ==
    [i \in DOMAIN bytes |->
        IF \E n \in DOMAIN LowerCase : LowerCase[n] = bytes[i]
        THEN UpperCase[CHOOSE n \in DOMAIN LowerCase : LowerCase[n] = bytes[i]]
        ELSE bytes[i]]
Capitalized(bytes) == <<to_ascii_uppercase(bytes)[1]>> \o Tail(bytes)
Spellings(name) == {name, to_ascii_uppercase(name), Capitalized(name)}

\* the requests converted: every name, and one that names no command, in its
\* three spellings with an argument list its conversion accepts, and the frames
\* that are no command
ParseRequests ==
    UNION {{Request(sp, GoodArgs(TypeOf(name))) : sp \in Spellings(name)} :
               name \in CommandNames \cup {<<"d", "e", "l">>}}

\* the frames an argument is drawn from, and the argument lists of up to
\* MaxArgs of them
ArgFrames == {BulkString(<<"a">>), Integer(7)}
ArgLists == UNION {[1..n -> ArgFrames] : n \in 0..MaxArgs}

\* every name with every argument list, and the empty array
ArityRequests ==
    {Request(name, args) : name \in CommandNames, args \in ArgLists}
        \cup {RespArray(<<>>)}

ParseFrames == ParseRequests \cup BadRequests \cup ArityRequests

\* Command::try_from(frame); a conversion reads nothing an earlier one left, so
\* a behaviour makes one
TryFromFrame(frame) ==
    /\ op = "init"
    /\ parsed' = [type |-> "Command", input |-> frame,
                  err |-> Command_try_from(frame).err, cmd |-> Command_try_from(frame).cmd]
    /\ op' = "try_from"
    /\ UNCHANGED <<frames, wire, buf, before, res, el, prevErr, decoded, ncalls, nfeeds,
                   atOnce, serverVars, calls, replies, prior, overflow_checks>>
    /\ UNCHANGED buildVars
    /\ UNCHANGED concVars
    /\ UNCHANGED callVars

\* T::try_from(array) for the command struct T
TryFromArray(type, frame) ==
    /\ op = "init"
    /\ frame.tag = "Array"
    /\ parsed' = [type |-> type, input |-> frame,
                  err |-> Type_try_from(type, frame.val).err,
                  cmd |-> Type_try_from(type, frame.val).cmd]
    /\ op' = "try_from"
    /\ UNCHANGED <<frames, wire, buf, before, res, el, prevErr, decoded, ncalls, nfeeds,
                   atOnce, serverVars, calls, replies, prior, overflow_checks>>
    /\ UNCHANGED buildVars
    /\ UNCHANGED concVars
    /\ UNCHANGED callVars

ParseNext ==
    \/ \E frame \in ParseFrames : TryFromFrame(frame)
    \/ \E type \in CommandTypes : \E frame \in ParseFrames : TryFromArray(type, frame)

\* a conversion is made in a build of either profile
ParseInit ==
    /\ frames = <<>>
    /\ wire = <<>>
    /\ CodecIdle
    /\ ServerIdle
    /\ calls = <<>>
    /\ replies = <<>>
    /\ prior = Backend_new
    /\ parsed = [type |-> "None", input |-> NilFrame, err |-> "NotCalled",
                 cmd |-> NilCommand]
    /\ overflow_checks \in BOOLEAN
    /\ BuildIdle
    /\ ConcIdle
    /\ CallIdle

SpecParse == ParseInit /\ [][ParseNext]_vars

(***************************************************************************)
(* The connection loop (src/network.rs): process_stream over a Framed      *)
(* with RespFrameCodec.  Framed keeps the read buffer and the flags        *)
(* is_readable and eof; next() decodes while the buffer is readable and    *)
(* reads the socket when the decoder asks for more.                        *)
(***************************************************************************)
\* a Decoder that asks for more bytes on every error: not the code's, used to
\* show that the end of the loop on a codec error rests on the Err arm of
\* RespFrameCodec::decode
RespFrameCodec_decode_ErrIsNone(src) ==
    LET Map(r) ==
            CASE r.err = "None" -> [kind |-> "Some", err |-> "None", frame |-> r.frame]
              [] r.err = "Panic" -> [kind |-> "Panic", err |-> "None", frame |-> NilFrame]
              [] OTHER -> [kind |-> "None", err |-> "None", frame |-> NilFrame]
    IN  Map(RespFrame_decode(src))

\* impl Decoder for RespFrameCodec: [kind, err, frame], kind "Some" for
\* Ok(Some(frame)), "None" for Ok(None), "Err" for Err(e), "Panic" for a panic
RespFrameCodec_decode(src) ==
    LET Map(r) ==
            CASE r.err = "None" -> [kind |-> "Some", err |-> "None", frame |-> r.frame]
              [] r.err = "Incomplete" -> [kind |-> "None", err |-> "None", frame |-> NilFrame]
              [] r.err = "Panic" -> [kind |-> "Panic", err |-> "None", frame |-> NilFrame]
              [] OTHER -> [kind |-> "Err", err |-> r.err, frame |-> NilFrame]
    IN  Map(RespFrame_decode(src))

\* bytes a client sends that are no encoding of a frame of the model
Raw(bytes) == [tag |-> "Raw", val |-> bytes]

\* a bulk string as a client writes it: the bytes as they are
ClientBulk(bytes) == <<"$">> \o NatDigits(Len(bytes)) \o CRLF \o bytes \o CRLF

\* what a client may send: two commands, three frames that are no command (not
\* an Array, an unknown name, a key that is not UTF-8) and four malformed inputs
ConnMessages ==
    {Request(<<"s", "e", "t">>, <<BulkString(<<"a">>), BulkString(<<"a">>)>>),
     Request(<<"g", "e", "t">>, <<BulkString(<<"a">>)>>),
     SimpleString(<<"a">>),
     Request(<<"d", "e", "l">>, <<BulkString(<<"a">>)>>),
     Raw(<<"*", "2">> \o CRLF \o ClientBulk(<<"g", "e", "t">>) \o ClientBulk(<<"xFF">>)),
     Raw(<<"?", "a">> \o CRLF),
     Raw(<<":", "a">> \o CRLF),
     Raw(<<"$", "a">> \o CRLF \o CRLF),
     Raw(<<"%", "1">> \o CRLF)}

\* the bytes of a message on the wire
ClientWire(m) == IF m.tag = "Raw" THEN m.val ELSE RespFrame_encode(m)

RECURSIVE ClientWireAll(_)
ClientWireAll(ms) ==
    IF ms = <<>> THEN <<>> ELSE ClientWire(Head(ms)) \o ClientWireAll(Tail(ms))

ConnScripts == UNION {[1..n -> ConnMessages] : n \in 1..MaxRequests}

\* commands of the other connections on the shared backend
OtherRequests == {Request(<<"s", "e", "t">>, <<BulkString(<<"a">>), Integer(7)>>)}

ConnInit ==
    /\ frames \in ConnScripts
    /\ wire = ClientWireAll(frames)
    /\ CodecIdle
    /\ ServerIdle
    /\ UnitIdle
    /\ BuildIdle
    /\ ConcIdle
    /\ CallIdle

\* poll_read gives the next bytes of the socket: the first read any k of them,
\* a later one all that is left
Read(k) ==
    /\ conn = "open" /\ ~readable
    /\ k \in 1..Len(wire)
    /\ nfeeds > 0 => k = Len(wire)
    /\ buf' = buf \o SubSeq(wire, 1, k)
    /\ wire' = SubSeq(wire, k + 1, Len(wire))
    /\ nfeeds' = nfeeds + 1
    /\ readable' = TRUE
    /\ eof' = FALSE
    /\ op' = "read"
    /\ UNCHANGED <<frames, before, res, el, prevErr, decoded, ncalls, atOnce>>
    /\ UNCHANGED <<backend, handled, results, out, conn, connErr>>
    /\ UNCHANGED unitVars
    /\ UNCHANGED buildVars
    /\ UNCHANGED concVars
    /\ UNCHANGED callVars

\* poll_read gives no byte: the client has sent everything and closed
ReadEof ==
    /\ conn = "open" /\ ~readable
    /\ wire = <<>>
    /\ eof' = TRUE
    /\ readable' = TRUE
    /\ op' = "read_eof"
    /\ UNCHANGED <<frames, wire, buf, before, res, el, prevErr, decoded, ncalls, nfeeds,
                   atOnce>>
    /\ UNCHANGED <<backend, handled, results, out, conn, connErr>>
    /\ UNCHANGED unitVars
    /\ UNCHANGED buildVars
    /\ UNCHANGED concVars
    /\ UNCHANGED callVars

\* next() calls the decoder on the readable buffer and gets a result of the kind
Polled(kind) ==
    /\ conn = "open" /\ readable
    /\ RespFrameCodec_decode(buf).kind = kind
    /\ res' = RespFrame_decode(buf)
    /\ before' = buf
    /\ UNCHANGED <<frames, wire, buf, el, prevErr, decoded, ncalls, nfeeds, atOnce>>
    /\ UNCHANGED unitVars
    /\ UNCHANGED buildVars
    /\ UNCHANGED concVars
    /\ UNCHANGED callVars

\* Ok(None): more bytes are needed; at eof (decode_eof) the stream ends when the
\* buffer is empty and fails with "bytes remaining on stream" when it is not
PollNone ==
    /\ Polled("None")
    /\ IF ~eof THEN UNCHANGED <<conn, connErr>>
       ELSE IF buf = <<>> THEN conn' = "closed" /\ UNCHANGED connErr
       ELSE conn' = "error" /\ connErr' = "Io"
    /\ readable' = FALSE
    /\ op' = "poll_none"
    /\ UNCHANGED <<backend, handled, results, out, eof>>

\* Some(Err(e)) => return Err(e)
PollError ==
    /\ Polled("Err")
    /\ conn' = "error"
    /\ connErr' = RespFrameCodec_decode(buf).err
    /\ op' = "poll_error"
    /\ UNCHANGED <<backend, handled, results, out, readable, eof>>

\* the decoder panics: the connection's task ends there
PollPanic ==
    /\ Polled("Panic")
    /\ conn' = "panicked"
    /\ op' = "poll_panic"
    /\ UNCHANGED <<backend, handled, results, out, connErr, readable, eof>>

\* let frame = frame_handler(frame, &backend).await?; frames.send(frame).await?
Served(frame, h) ==
    /\ handled' = Append(handled, frame)
    /\ results' = Append(results, [err |-> h.err, frame |-> h.frame])
    /\ IF h.err # "None"
       THEN conn' = "error" /\ connErr' = h.err /\ UNCHANGED <<out, backend>>
       ELSE out' = Append(out, h.frame) /\ backend' = h.backend
                /\ UNCHANGED <<conn, connErr>>

\* Some(Ok(frame)): the frame is handled and the response sent
ServeFrame ==
    /\ Polled("Some")
    /\ Len(handled) < MaxResponses
    /\ \E order \in OrdersFor(res'.frame, backend) :
           Served(res'.frame, frame_handler(res'.frame, backend, order))
    /\ op' = "serve"
    /\ UNCHANGED <<readable, eof>>

\* another connection's command runs on the shared backend
OtherConnection(frame) ==
    /\ backend' = frame_handler(frame, backend, <<>>).backend
    /\ backend' # backend
    /\ op' = "other"
    /\ UNCHANGED <<frames, wire, buf, before, res, el, prevErr, decoded, ncalls, nfeeds,
                   atOnce>>
    /\ UNCHANGED <<handled, results, out, conn, connErr, readable, eof>>
    /\ UNCHANGED unitVars
    /\ UNCHANGED buildVars
    /\ UNCHANGED concVars
    /\ UNCHANGED callVars

ConnNext ==
    \/ \E k \in 1..Len(wire) : Read(k)
    \/ ReadEof
    \/ PollNone
    \/ PollError
    \/ PollPanic
    \/ ServeFrame
    \/ \E frame \in OtherRequests : OtherConnection(frame)

SpecConn == ConnInit /\ [][ConnNext]_vars

(***************************************************************************)
(* Commands of several connections at once.  main spawns one task for each *)
(* connection on the multi-threaded runtime, each with a clone of the one  *)
(* Backend: the executors of different connections run in parallel, and a  *)
(* step is one call on the backend.  One connection executes an HMGET, one *)
(* a list of HSETs, one a SADD and one SISMEMBERs, all on the same key.    *)
(***************************************************************************)
ConcKey == <<"a">>
ConcHMGet == HMGet(ConcKey, <<<<"a">>, <<"b">>>>)
ConcSAdd == SAdd(ConcKey, <<BulkString(<<"a">>), BulkString(<<"b">>)>>)
ConcHSets ==
    {HSet(ConcKey, f, v) : f \in {<<"a">>, <<"b">>}, v \in {Integer(7), Integer(-1)}}

ConcInit ==
    /\ pc = [hmget |-> "start", sadd |-> "start", added |-> 0]
    /\ data = <<>>
    /\ views = {}
    /\ todo \in UNION {[1..n -> ConcHSets] : n \in 1..MaxWrites}
    /\ seen = <<>>
    /\ frames = <<>>
    /\ wire = <<>>
    /\ CodecIdle
    /\ ServerIdle
    /\ UnitIdle
    /\ BuildIdle
    /\ CallIdle

\* what a step of a concurrent task leaves alone
ConcFrame ==
    UNCHANGED <<frames, wire, buf, op, before, res, el, prevErr, decoded, ncalls, nfeeds,
                atOnce, handled, results, out, conn, connErr, readable, eof, unitVars,
                buildVars, callVars>>

\* HMGet::execute is entered: let mut data = Vec::with_capacity(..)
HMGetStart ==
    /\ pc.hmget = "start"
    /\ pc' = [pc EXCEPT !.hmget = "loop"]
    /\ data' = <<>>
    /\ views' = {HashOf(backend, ConcKey)}
    /\ UNCHANGED <<backend, todo, seen>>
    /\ ConcFrame

\* one pass of the loop of HMGet::execute: one backend.hget and one push
HMGetField ==
    /\ pc.hmget = "loop"
    /\ Len(data) < Len(ConcHMGet.fields)
    /\ data' = data \o HMGet_data(backend, ConcKey,
                                   <<ConcHMGet.fields[Len(data) + 1]>>)
    /\ UNCHANGED <<backend, pc, views, todo, seen>>
    /\ ConcFrame

\* HMGet::execute returns RespArray::new(data)
HMGetReturn ==
    /\ pc.hmget = "loop"
    /\ Len(data) = Len(ConcHMGet.fields)
    /\ pc' = [pc EXCEPT !.hmget = "done"]
    /\ UNCHANGED <<backend, data, views, todo, seen>>
    /\ ConcFrame

\* HSet::execute of the writing connection's next command: one backend.hset;
\* views collects what the hash holds at each point while the HMGET runs
HSetExecute ==
    /\ todo # <<>>
    /\ backend' = HSet_execute(Head(todo), backend).backend
    /\ todo' = Tail(todo)
    /\ views' = IF pc.hmget = "loop" THEN views \cup {HashOf(backend', ConcKey)}
                 ELSE views
    /\ UNCHANGED <<pc, data, seen>>
    /\ ConcFrame

\* SAdd::execute: backend.set.entry(key).or_default(); the entry returned is
\* held, and with it the lock on the key, until execute returns
SAddEntry ==
    /\ pc.sadd = "start"
    /\ backend' = Backend_sadd(backend, ConcKey, <<>>)
    /\ pc' = [pc EXCEPT !.sadd = "insert"]
    /\ UNCHANGED <<data, views, todo, seen>>
    /\ ConcFrame

\* one pass of the loop of SAdd::execute: set.insert(member.clone())
SAddInsert ==
    /\ pc.sadd = "insert"
    /\ pc.added < Len(ConcSAdd.members)
    /\ backend' = Backend_sadd(backend, ConcKey, <<ConcSAdd.members[pc.added + 1]>>)
    /\ pc' = [pc EXCEPT !.added = pc.added + 1]
    /\ UNCHANGED <<data, views, todo, seen>>
    /\ ConcFrame

\* SAdd::execute returns and the entry is dropped
SAddReturn ==
    /\ pc.sadd = "insert"
    /\ pc.added = Len(ConcSAdd.members)
    /\ pc' = [pc EXCEPT !.sadd = "done"]
    /\ UNCHANGED <<backend, data, views, todo, seen>>
    /\ ConcFrame

\* the members of the SADD a SISMEMBER would find now
Visible(b) ==
    {i \in DOMAIN ConcSAdd.members :
         SIsMember_execute(SIsMember(ConcKey, ConcSAdd.members[i]), b).frame = Integer(1)}

\* SIsMember::execute: backend.set.get(key) waits while the entry of the key is
\* held by a writer
SIsMemberExecute(member) ==
    /\ pc.sadd # "insert"
    /\ Len(seen) < MaxQueries
    /\ seen' = Append(seen, [member |-> member,
                              reply |-> SIsMember_execute(SIsMember(ConcKey, member),
                                                          backend).frame,
                              visible |-> Visible(backend)])
    /\ UNCHANGED <<backend, pc, data, views, todo>>
    /\ ConcFrame

ConcNext ==
    \/ HMGetStart
    \/ HMGetField
    \/ HMGetReturn
    \/ HSetExecute
    \/ SAddEntry
    \/ SAddInsert
    \/ SAddReturn
    \/ \E i \in DOMAIN ConcSAdd.members : SIsMemberExecute(ConcSAdd.members[i])

SpecConc == ConcInit /\ [][ConcNext]_vars

(***************************************************************************)
(* Functions called on their own: find_crlf on any buffer                  *)
(* (src/resp/decode.rs) and the conversion of an f64 to a frame            *)
(* (src/resp/mod.rs).  ret is [kind, val]: "NotCalled" until the call      *)
(* ends, then "Some" with the index or "None" for an Option, "Value" with  *)
(* the frame returned, "Panic", or "StackOverflow" when the process is     *)
(* aborted for want of stack.                                              *)
(***************************************************************************)
\* the buffers find_crlf is called on: every sequence of up to MaxBufLen of
\* these bytes; the occurrences asked for are those its callers ask for
CallBytes == {CR, LF, "a"}
CallBufs == UNION {[1..n -> CallBytes] : n \in 0..MaxBufLen}
CallNths == {1, 2}

CallInit ==
    /\ frames = <<>>
    /\ wire = <<>>
    /\ CodecIdle
    /\ ServerIdle
    /\ UnitIdle
    /\ BuildIdle
    /\ ConcIdle
    /\ CallIdle

\* what a call of a function on its own leaves alone
CallFrame == UNCHANGED <<codecVars, serverVars, unitVars, buildVars, concVars>>

\* find_crlf(b, nth)
FindCrlf(b, nth) ==
    LET Returned(r) ==
            CASE r.err = "Panic" -> [kind |-> "Panic", val |-> 0]
              [] r.err = "NotFound" -> [kind |-> "None", val |-> 0]
              [] OTHER -> [kind |-> "Some", val |-> r.at]
    IN  /\ callee = "None"
        /\ callee' = "find_crlf"
        /\ arg' = [buf |-> b, nth |-> nth]
        /\ ret' = Returned(find_crlf(b, nth))
        /\ UNCHANGED depth
        /\ CallFrame

\* the body of `impl From<f64> for RespFrame`, `s.into()`: the type wanted is
\* Self, so the into is that of Into<RespFrame> for f64, which is
\* RespFrame::from(s), the function the body belongs to
RespFrame_from_f64(s) == [kind |-> "Call", fn |-> "RespFrame::from", val |-> s]

\* RespFrame::from(s) is called
FromF64Call(s) ==
    /\ callee = "None"
    /\ callee' = "RespFrame::from"
    /\ arg' = s
    /\ depth' = 1
    /\ UNCHANGED ret
    /\ CallFrame

\* the innermost frame of RespFrame::from runs its body: a call of
\* RespFrame::from puts one frame more on the stack, a value is returned
\* through every frame.  (A build that turns the call in tail position into a
\* jump keeps the stack as it is and does not return either.)
FromF64Body ==
    LET Run(body) ==
            IF body.kind = "Call"
            THEN depth' = depth + 1 /\ UNCHANGED ret
            ELSE depth' = 0 /\ ret' = [kind |-> "Value", val |-> body.val]
    IN  /\ callee = "RespFrame::from"
        /\ ret.kind = "NotCalled"
        /\ depth < MaxStack
        /\ Run(RespFrame_from_f64(arg))
        /\ UNCHANGED <<callee, arg>>
        /\ CallFrame

\* the stack has no room for a frame more: the process is aborted
FromF64Overflow ==
    /\ callee = "RespFrame::from"
    /\ ret.kind = "NotCalled"
    /\ depth = MaxStack
    /\ ret' = [kind |-> "StackOverflow", val |-> 0]
    /\ UNCHANGED <<callee, arg, depth>>
    /\ CallFrame

CallNext ==
    \/ \E b \in CallBufs, nth \in CallNths : FindCrlf(b, nth)
    \/ \E s \in F64Vals : FromF64Call(s)
    \/ FromF64Body
    \/ FromF64Overflow

SpecCalls == CallInit /\ [][CallNext]_vars

(***************************************************************************)
(* Claims about the codec, over SpecCodec.                                 *)
(***************************************************************************)
\* C1: decode on a buffer holding exactly encode(f) returns f and removes
\* len(encode(f)) bytes, leaving the buffer empty
C1_RoundTripConsumes ==
    (op = "decode" /\ Len(frames) = 1 /\ before = RespFrame_encode(frames[1]))
        => (res = Ok(frames[1]) /\ buf = <<>>)

\* C2: decode on a strict prefix of encode(f) returns Incomplete: no other
\* error, no frame, no panic
C2_StrictPrefixIncomplete ==
    (op = "decode" /\ Len(frames) = 1
        /\ IsStrictPrefix(before, RespFrame_encode(frames[1])))
        => res.err = "Incomplete"

\* C3: with the encodings of f1..fn concatenated in the buffer, n successive
\* decode calls return f1..fn in order and leave the buffer empty
C3_ConcatenationInOrder ==
    (op = "decode" /\ atOnce /\ ncalls = Len(frames))
        => (decoded = frames /\ buf = <<>>)

\* C4: expect_length on a buffer that starts with encode(f), followed by
\* further bytes or not, returns len(encode(f)) and leaves the buffer as it was
C4_ExpectLengthExact ==
    (op = "expect_length" /\ IsPrefix(RespFrame_encode(frames[1]), before))
        => (el = OkLen(Len(RespFrame_encode(frames[1]))) /\ buf = before)

\* C5: a decode that returns Incomplete leaves the buffer byte for byte as it
\* was, and once the missing bytes are appended the next decode returns the frame
C5_IncompleteThenComplete ==
    /\ (op = "decode" /\ res.err = "Incomplete") => buf = before
    /\ (op = "decode" /\ Len(frames) = 1 /\ prevErr = "Incomplete"
            /\ before = RespFrame_encode(frames[1]))
           => res = Ok(frames[1])

C17_BulkPayloadByteExact ==
    (op = "decode" /\ Len(frames) = 1 /\ frames[1].tag \in {"BulkString", "BulkError"}
        /\ before = RespFrame_encode(frames[1]))
        => /\ before = Bulk(IF frames[1].tag = "BulkString" THEN "$" ELSE "!",
                            NatDigits(Len(frames[1].val)), frames[1].val)
           /\ res = Ok(frames[1])

(***************************************************************************)
(* Claims about the connection loop, over SpecConn.                        *)
(***************************************************************************)
\* C6: when a decoded frame cannot be turned into a command, a SimpleError is
\* written back and the connection stays open
C6_CommandErrorAnswered ==
    (op = "serve" /\ results[Len(results)].err # "None")
        => (conn = "open" /\ out # <<>> /\ out[Len(out)].tag = "Error")

\* the codec errors other than Incomplete
CodecErrors == {"Invalid", "InvalidFrameLength", "InvalidFrameType"}

\* C7: when the decoder returns a codec error other than Incomplete, the loop
\* ends with that error, and neither in that step nor in any later one is a
\* frame handled or a response written on the connection
C7_CodecErrorEndsLoop ==
    /\ [](res.err \in CodecErrors => (conn = "error" /\ connErr = res.err))
    /\ [][res'.err \in CodecErrors
              => (handled' = handled /\ results' = results /\ out' = out)]_vars

\* C7 happens: the loop has ended with the decoder's error while bytes the
\* client sent after the malformed input are still unread
C7_Witness ==
    /\ conn = "error" /\ connErr \in CodecErrors /\ res.err = connErr
    /\ Len(frames) = 2 /\ frames[1] = Raw(<<"?", "a">> \o CRLF)
    /\ frames[2] \in ValidRequests
    /\ handled = <<>> /\ out = <<>>

\* C8: for valid requests r1..rn exactly one response is written per request,
\* in request order, each the result of handling its request
C8_OneResponsePerRequest ==
    (\A i \in 1..Len(frames) : frames[i] \in ValidRequests)
        => /\ Len(handled) <= Len(frames)
           /\ Len(out) <= Len(handled)
           /\ \A i \in 1..Len(handled) :
                  /\ handled[i] = frames[i]
                  /\ i <= Len(out) => out[i] = results[i].frame

(***************************************************************************)
(* Claims about the executor, over SpecExec.                               *)
(***************************************************************************)
RECURSIVE MostRecentSet(_, _)
\* the value of the last SET of key in a log of requests, Null when it has none
MostRecentSet(log, key) ==
    IF log = <<>> THEN RespNull
    ELSE IF log[Len(log)] \in SetRequests /\ log[Len(log)].val[2].val = key
         THEN log[Len(log)].val[3]
    ELSE MostRecentSet(SubSeq(log, 1, Len(log) - 1), key)

\* C9: after any sequence of commands, GET k returns the value of the most
\* recent SET k v before it, Null when there was none, and every SET returns
\* SimpleString("OK")
C9_GetReturnsMostRecentSet ==
    \A i \in 1..Len(handled) :
        /\ handled[i] \in SetRequests => results[i] = [err |-> "None", frame |-> RESP_OK]
        /\ handled[i] \in GetRequests =>
               results[i] = [err |-> "None",
                             frame |-> MostRecentSet(SubSeq(handled, 1, i - 1),
                                                     handled[i].val[2].val)]

\* C9 happens: a key is set twice to different values and then read, and the
\* read returns the second value
C9_Witness ==
    /\ Len(handled) = 3
    /\ handled[1] \in SetRequests /\ handled[2] \in SetRequests
    /\ handled[3] \in GetRequests
    /\ handled[1].val[2] = handled[3].val[2] /\ handled[2].val[2] = handled[3].val[2]
    /\ handled[1].val[3] # handled[2].val[3]
    /\ results[3].frame = handled[2].val[3]

\* the fields of the hash a log of requests builds at key
HSetFields(log, key) ==
    {log[i].val[3].val : i \in {j \in 1..Len(log) :
                                   log[j] \in HSetRequests /\ log[j].val[2].val = key}}

\* whether the frames are field1, value1, field2, value2, ... with the fields
\* strictly ascending
AscendingFields(fs) ==
    /\ Len(fs) % 2 = 0
    /\ \A i \in 1..(Len(fs) \div 2) : fs[2 * i - 1].tag = "BulkString"
    /\ \A i \in 1..(Len(fs) \div 2 - 1) :
           BytesCmp(fs[2 * i - 1].val, fs[2 * i + 1].val) < 0

\* C10: HGETALL key through the command parser returns, for an existing hash,
\* the Array of every field once with its value, fields ascending, whatever
\* the order of the HSETs; Null for a missing key
C10_HGetAllSorted ==
    \A i \in 1..Len(handled) :
        handled[i] \in HGetAllRequests =>
            LET fields == HSetFields(SubSeq(handled, 1, i - 1), handled[i].val[2].val)
            IN  /\ results[i].err = "None"
                /\ fields = {} => results[i].frame = RespNull
                /\ fields # {} =>
                       /\ results[i].frame.tag = "Array"
                       /\ AscendingFields(results[i].frame.val)
                       /\ {results[i].frame.val[2 * n - 1].val :
                               n \in 1..(Len(results[i].frame.val) \div 2)} = fields
                       /\ Len(results[i].frame.val) = 2 * Cardinality(fields)

(***************************************************************************)
(* Claims about the executors called on command values, over SpecUnit.     *)
(***************************************************************************)
RECURSIVE MostRecentHSet(_, _, _)
\* the value of the last HSET key field of the log, Null when there is none
MostRecentHSet(log, key, field) ==
    IF log = <<>> THEN RespNull
    ELSE LET last == log[Len(log)]
         IN  IF last.name = "HSet" /\ last.key = key /\ last.field = field
             THEN last.value
             ELSE MostRecentHSet(SubSeq(log, 1, Len(log) - 1), key, field)

\* C11: every HMGET key f1..fn returns an Array of exactly n elements, the
\* i-th the value of the most recent HSET key fi before it or Null when there
\* is none, in the order of the requested fields; HGET key f returns that
\* same frame
C11_HMGetInRequestOrder ==
    \A i \in DOMAIN calls :
        LET log == SubSeq(calls, 1, i - 1)
            cmd == calls[i]
        IN  /\ cmd.name = "HMGet" =>
                   /\ replies[i].tag = "Array"
                   /\ Len(replies[i].val) = Len(cmd.fields)
                   /\ \A j \in DOMAIN cmd.fields :
                          replies[i].val[j] = MostRecentHSet(log, cmd.key, cmd.fields[j])
            /\ cmd.name = "HGet" =>
                   replies[i] = MostRecentHSet(log, cmd.key, cmd.field)

\* a field set twice and a field never set are asked for in one HMGET, the
\* missing field first
C11_Witness ==
    /\ Len(calls) = 3
    /\ calls[1] = HSet(<<"a">>, <<"b">>, Integer(7))
    /\ calls[2] = HSet(<<"a">>, <<"b">>, BulkString(<<"a">>))
    /\ calls[3] = HMGet(<<"a">>, <<<<"a">>, <<"b">>>>)
    /\ replies[3] = RespArray(<<RespNull, BulkString(<<"a">>)>>)

\* whether some SADD of the log on the key lists the member
AddedBefore(log, key, member) ==
    \E j \in DOMAIN log :
        /\ log[j].name = "SAdd"
        /\ log[j].key = key
        /\ \E n \in DOMAIN log[j].members : log[j].members[n] = member

\* C12: SISMEMBER key m returns Integer(1) if and only if an earlier SADD on
\* the key listed m, and Integer(0) otherwise, also when the key does not
\* exist; SADD always returns OK, and a SADD whose members are all present
\* already leaves the backend as it was
C12_SIsMemberIffAdded ==
    /\ \A i \in DOMAIN calls :
           /\ calls[i].name = "SIsMember" =>
                  replies[i] = IF AddedBefore(SubSeq(calls, 1, i - 1), calls[i].key,
                                              calls[i].member)
                               THEN Integer(1) ELSE Integer(0)
           /\ calls[i].name = "SAdd" => replies[i] = RESP_OK
    /\ (/\ calls # <<>>
        /\ calls[Len(calls)].name = "SAdd"
        /\ calls[Len(calls)].members # <<>>
        /\ \A n \in DOMAIN calls[Len(calls)].members :
               calls[Len(calls)].members[n] \in SetOf(prior, calls[Len(calls)].key))
       => backend = prior

\* a member is added, added again twice in one SADD, and then found
C12_Witness ==
    /\ Len(calls) = 3
    /\ calls[1] = SAdd(<<"a">>, <<BulkString(<<"a">>)>>)
    /\ calls[2] = SAdd(<<"a">>, <<BulkString(<<"a">>), BulkString(<<"a">>)>>)
    /\ calls[3] = SIsMember(<<"a">>, BulkString(<<"a">>))
    /\ replies = <<RESP_OK, RESP_OK, Integer(1)>>
    /\ SetOf(backend, <<"a">>) = {BulkString(<<"a">>)}

(***************************************************************************)
(* Claims about the conversions to a command, over SpecParse.              *)
(***************************************************************************)
\* C13: Command::try_from recognises each of the nine names in every case:
\* with an argument list the command accepts, the lower-case, upper-case and
\* mixed-case spellings all give the command its own conversion gives, and
\* only a name outside the nine gives InvalidCommand
C13_NamesCaseInsensitive ==
    (parsed.type = "Command" /\ parsed.input \in ParseRequests) =>
        LET name == to_ascii_lowercase(parsed.input.val[1].val)
        IN  IF name \in CommandNames
            THEN /\ parsed.err = "None"
                 /\ parsed.cmd = Type_try_from(TypeOf(name), parsed.input.val).cmd
            ELSE parsed.err = "InvalidCommand"

(***************************************************************************)
(* Claims about the codec on given bytes, over SpecBytes.                  *)
(***************************************************************************)
\* C14: RespFrame::decode maps the three null sentinels to three variants,
\* `*-1\r\n` to NullArray, `$-1\r\n` to NullBulkString and `_\r\n` to Null,
\* and consumes their 5, 5 and 3 bytes; `*-2\r\n`, `$-2\r\n` and `_x\r\n`
\* are decode errors
C14_NullSentinels ==
    op = "decode" =>
        /\ before = Line("*", <<"-", "1">>) => (res = Ok(RespNullArray) /\ buf = <<>>)
        /\ before = Line("$", <<"-", "1">>) => (res = Ok(NullBulkString) /\ buf = <<>>)
        /\ before = Line("_", <<>>) => (res = Ok(RespNull) /\ buf = <<>>)
        /\ before \in {Line("*", <<"-", "2">>), Line("$", <<"-", "2">>),
                        Line("_", <<"x">>)}
               => res.err \notin {"None", "Incomplete", "Panic"}

\* C16: decoding a BulkString or BulkError whose declared length is not the
\* number of payload bytes between the header's CRLF and the terminating CRLF
\* returns InvalidFrameLength; no decode returns a frame whose payload is not
\* the bytes present
C16_LengthMismatchRejected ==
    op = "decode" =>
        \A p \in {"$", "!"}, d \in DeclaredLengths, b \in PresentBytes :
            before \o wire = Bulk(p, d, b) =>
                /\ (wire = <<>> /\ d # NatDigits(Len(b)))
                       => res.err = "InvalidFrameLength"
                /\ res.err = "None"
                       => /\ res.frame = IF p = "$" THEN BulkString(b) ELSE BulkError(b)
                          /\ d = NatDigits(Len(b))

\* a bulk string that declares three bytes and holds one has been received
\* whole and rejected
C16_Witness ==
    /\ op = "decode"
    /\ wire = <<>>
    /\ before = Bulk("$", <<"3">>, <<"a">>)
    /\ res.err = "InvalidFrameLength"

\* the text of an integer as the specification gives it: the colon, one sign
\* character, the decimal digits of the absolute value, CRLF
IntegerText(v) == <<":">> \o <<IF v.neg THEN "-" ELSE "+">> \o v.digits \o CRLF

\* C20: an Integer is encoded as `:`, then `+` when n >= 0 or `-` when n < 0,
\* then the decimal digits of |n| and CRLF, with one sign character also for
\* -2^63; decoding that text returns n, and integer text beyond the signed
\* 64-bit range is the decode error Invalid, not a wrapped value
C20_IntegerSignedDecimal ==
    /\ \A v \in I64Vals : i64_encode(v) = IntegerText(v)
    /\ (op = "decode" /\ wire = <<>>) =>
           /\ \A v \in I64Vals : before = IntegerText(v) => res = Ok(IntegerOf(v))
           /\ \A t \in I64Beyond : before = Line(":", t) => res = Err("Invalid")
           /\ (res.err = "None" /\ res.frame.tag = "Integer")
                  => RespFrame_encode(res.frame) = IntegerText(res.frame.val)

\* the text of -2^63 has been received whole and decoded to -2^63
C20_Witness ==
    /\ op = "decode"
    /\ wire = <<>>
    /\ before = <<":", "-">> \o I64MinDigits \o CRLF
    /\ res = Ok(IntegerOf(I64Min))

(***************************************************************************)
(* Claims about sets and maps built by insertion, over SpecBuild.          *)
(***************************************************************************)
\* the variants in the order of the specification's table, and in the order in
\* which enum RespFrame declares them
TableOrder ==
    <<"SimpleString", "Error", "Integer", "BulkString", "NullBulkString", "BulkError",
      "Null", "Boolean", "Double", "Array", "NullArray", "Map", "Set">>
DeclarationOrder ==
    <<"SimpleString", "Error", "BulkError", "Integer", "BulkString", "NullBulkString",
      "Array", "NullArray", "Null", "Boolean", "Double", "Map", "Set">>

\* a is before b when its variant is earlier in the order, or the variant is the
\* same and its payload is smaller
Before(order, a, b) ==
    LET Rank(t) == CHOOSE n \in DOMAIN order : order[n] = t
    IN  \/ Rank(a.tag) < Rank(b.tag)
        \/ a.tag = b.tag /\ FrameCmp(a, b) < 0

\* the set built holds every frame inserted, iterates them in the order given
\* and is encoded in that order
SetIteratesIn(order) ==
    built.tag = "Set" =>
        /\ \A k \in 1..nins : \E i \in DOMAIN built.val : built.val[i] = items[k]
        /\ \A i, j \in DOMAIN built.val : i < j => Before(order, built.val[i], built.val[j])
        /\ op = "encode" =>
               encoded = <<"~">> \o NatDigits(Len(built.val)) \o CRLF \o EncodeAll(built.val)

\* C18: the order on frames compares the variant first, the variants ordered
\* as in the specification's table (SimpleString < SimpleError < Integer <
\* BulkString < NullBulkString < BulkError < Null < Boolean < Double < Array <
\* NullArray < Map < Set), and payloads only within a variant; a Set iterates
\* and encodes its elements in this order
C18_TableTagOrder == SetIteratesIn(TableOrder)

\* C18 as amended: the variants are ordered as enum RespFrame declares them
\* (SimpleString < SimpleError < BulkError < Integer < BulkString <
\* NullBulkString < Array < NullArray < Null < Boolean < Double < Map < Set)
C18_DeclarationTagOrder == SetIteratesIn(DeclarationOrder)

\* a Null and then an Array have been inserted and the set encoded: the Array
\* comes first
C18_Witness ==
    /\ op = "encode"
    /\ built.tag = "Set"
    /\ items = <<RespNull, RespArray(<<RespNull>>)>>
    /\ built = RespSet(<<RespArray(<<RespNull>>), RespNull>>)
    /\ encoded = <<"~", "2">> \o CRLF \o <<"*", "1">> \o CRLF \o <<"_">> \o CRLF
                     \o <<"_">> \o CRLF

RECURSIVE Flatten(_)
Flatten(seqs) == IF seqs = <<>> THEN <<>> ELSE Head(seqs) \o Flatten(Tail(seqs))

\* the insertions done so far that no later insertion done so far repeats
LastInsertions(Same(_, _)) ==
    {k \in 1..nins : \A j \in (k + 1)..nins : ~Same(items[j], items[k])}

\* the insertions of D, in ascending order
Ascending(D, Cmp(_, _)) ==
    CHOOSE s \in [1..Cardinality(D) -> D] :
        \A i, j \in DOMAIN s : i < j => Cmp(items[s[i]], items[s[j]]) < 0

\* the encoding the value of a set determines: the number of distinct elements
\* and the elements in ascending order
SetEncoding ==
    LET Same(a, b) == FrameCmp(a, b) = 0
        Of(s) == <<"~">> \o NatDigits(Len(s)) \o CRLF
                     \o Flatten([i \in DOMAIN s |-> RespFrame_encode(items[s[i]])])
    IN  Of(Ascending(LastInsertions(Same), FrameCmp))

\* the encoding the value of a map determines: the number of distinct keys and
\* the entries in ascending key order, a key as a simple string and then the
\* value it was given last
MapEncoding ==
    LET Same(a, b) == a[1] = b[1]
        ByKey(a, b) == BytesCmp(a[1], b[1])
        Of(s) == <<"%">> \o NatDigits(Len(s)) \o CRLF
                     \o Flatten([i \in DOMAIN s |->
                                     <<"+">> \o items[s[i]][1] \o CRLF
                                         \o RespFrame_encode(items[s[i]][2])])
    IN  Of(Ascending(LastInsertions(Same), ByKey))

\* C19: the encoding of a Map or a Set is determined by its value, whatever the
\* order of the insertions and however often a key or an element was inserted:
\* the count is the number of distinct keys or elements, the entries of a Map
\* are in ascending key order, each key a SimpleString followed by its value
C19_EncodingByValue ==
    op = "encode" =>
        encoded = IF built.tag = "Set" THEN SetEncoding ELSE MapEncoding

\* b, a and b again have been inserted into a map, and the map encoded: a is
\* first, b has its last value, and the count is two
C19_Witness ==
    /\ op = "encode"
    /\ built.tag = "Map"
    /\ nins = 3
    /\ items = <<<<<<"b">>, Integer(7)>>, <<<<"a">>, Integer(7)>>, <<<<"b">>, RespNull>>>>
    /\ encoded = <<"%", "2">> \o CRLF \o <<"+", "a">> \o CRLF
                     \o <<":", "+", "7">> \o CRLF \o <<"+", "b">> \o CRLF
                     \o <<"_">> \o CRLF

(***************************************************************************)
(* Claims about the arguments of a command, over SpecParse.                *)
(***************************************************************************)
\* the conversion of the type was given an array whose first element is the
\* type's own name
OwnName ==
    /\ op = "try_from"
    /\ parsed.type \in CommandTypes
    /\ parsed.input.val # <<>>
    /\ parsed.input.val[1].tag = "BulkString"
    /\ TypeOf(to_ascii_lowercase(parsed.input.val[1].val)) = parsed.type

\* the elements after the name, and those after the key
ArgsOf(input) == Tail(input.val)
TrailingOf(input) == Tail(Tail(input.val))

\* C21: HMGET and SADD need at least one element after the key: with a key and
\* nothing after it they are rejected with InvalidArguments, and so they are
\* when an element after the key is no BulkString
C21_VariadicNeedsOne ==
    (OwnName /\ parsed.type \in {"HMGet", "SAdd"} /\ Len(parsed.input.val) >= 2) =>
        /\ TrailingOf(parsed.input) = <<>> => parsed.err = "InvalidArguments"
        /\ (\E i \in DOMAIN TrailingOf(parsed.input) :
                TrailingOf(parsed.input)[i].tag # "BulkString")
               => parsed.err = "InvalidArguments"

\* the commands of a fixed number of arguments, that number, and how many of
\* the first arguments are a key or a field
FixedArity == {"Get", "Set", "Echo", "HGet", "HSet", "HGetAll", "SIsMember"}
ArityOf(type) ==
    CASE type \in {"Get", "Echo", "HGetAll"} -> 1
      [] type \in {"Set", "HGet", "SIsMember"} -> 2
      [] type = "HSet" -> 3
KeysOf(type) ==
    CASE type \in {"Get", "Set", "HGetAll", "SIsMember"} -> 1
      [] type \in {"HGet", "HSet"} -> 2
      [] type = "Echo" -> 0

\* the command the array names was converted: by the command's own conversion,
\* or by Command::try_from, which the name reaches as one of its five literals
ConvertedAs(type) ==
    /\ op = "try_from"
    /\ parsed.input.tag = "Array"
    /\ parsed.input.val # <<>>
    /\ parsed.input.val[1].tag = "BulkString"
    /\ \/ /\ parsed.type = type
          /\ TypeOf(to_ascii_lowercase(parsed.input.val[1].val)) = type
       \/ /\ parsed.type = "Command"
          /\ type \in {"Get", "Set", "HGet", "HSet", "HGetAll"}
          /\ TypeOf(parsed.input.val[1].val) = type

Rejected(e) == parsed.err = e /\ parsed.cmd = NilCommand

HMGetOf(h, fields) ==
    [i \in DOMAIN fields |-> IF fields[i] \in DOMAIN h THEN h[fields[i]] ELSE RespNull]

\* C23: a command is atomic on its key: the Array an HMGET returns is what the
\* hash held at one point between the command's start and its end, and a
\* SISMEMBER finds either all the members of a concurrent SADD or none
C23_CommandsAtomic ==
    /\ pc.hmget = "done" => \E h \in views : data = HMGetOf(h, ConcHMGet.fields)
    /\ \A q \in DOMAIN seen : seen[q].visible \in {{}, DOMAIN ConcSAdd.members}

(***************************************************************************)
(* Claims about what a command leaves alone, over SpecTables.              *)
(***************************************************************************)
\* the tables agree on every key but the one given
SameButAt(old, new, key) ==
    /\ DOMAIN new \ {key} = DOMAIN old \ {key}
    /\ \A k \in DOMAIN old \ {key} : new[k] = old[k]

\* the call made last
LastCall == calls[Len(calls)]

\* C24: a write changes its own table at its own key and nothing else: SET k v
\* only the string at k, HSET k f v only the field f of the hash at k, SADD
\* k m.. only the set at k; the other two tables and every other key are as
\* they were before the command
C24_WriteTouchesOneEntry ==
    calls # <<>> =>
        /\ LastCall.name = "Set" =>
               /\ SameButAt(prior.map, backend.map, LastCall.key)
               /\ backend.hmap = prior.hmap
               /\ backend.set = prior.set
        /\ LastCall.name = "HSet" =>
               /\ backend.map = prior.map
               /\ SameButAt(prior.hmap, backend.hmap, LastCall.key)
               /\ SameButAt(HashOf(prior, LastCall.key), HashOf(backend, LastCall.key),
                            LastCall.field)
               /\ backend.set = prior.set
        /\ LastCall.name = "SAdd" =>
               /\ backend.map = prior.map
               /\ backend.hmap = prior.hmap
               /\ SameButAt(prior.set, backend.set, LastCall.key)

\* the key a holds a string and a set, and an HSET has given it a hash too: the
\* string and the set are as they were
C24_Witness ==
    /\ Len(calls) = 3
    /\ LastCall = HSet(<<"a">>, <<"a">>, Integer(7))
    /\ <<"a">> \in DOMAIN prior.map
    /\ <<"a">> \in DOMAIN prior.set
    /\ backend.map = prior.map
    /\ backend.set = prior.set
    /\ HashOf(backend, <<"a">>)[<<"a">>] = Integer(7)

\* the commands that only read
ReadNames == {"Get", "HGet", "HMGet", "HGetAll", "SIsMember", "Echo"}

\* no call before the i-th wrote the table at the key
NeverWritten(i, name, key) ==
    \A j \in 1..(i - 1) : ~(calls[j].name = name /\ calls[j].key = key)

\* C29: GET, HGET, HMGET, HGETALL, SISMEMBER and ECHO leave the backend as it
\* was, on a key that exists and on one that does not: a read of a missing key
\* creates no entry, so GET and HGETALL of a key never written return Null
\* also after other reads of it
C29_ReadsChangeNothing ==
    /\ (calls # <<>> /\ LastCall.name \in ReadNames) => backend = prior
    /\ \A i \in DOMAIN calls :
           /\ (calls[i].name = "Get" /\ NeverWritten(i, "Set", calls[i].key))
                  => replies[i] = RespNull
           /\ (calls[i].name = "HGetAll" /\ NeverWritten(i, "HSet", calls[i].key))
                  => replies[i] = RespNull

\* the hash b was never written: an HGET and an HMGET of it, and then an
\* HGETALL that still returns Null
C29_Witness ==
    /\ calls = <<HGet(<<"b">>, <<"a">>), HMGet(<<"b">>, <<<<"a">>>>), HGetAll(<<"b">>, FALSE)>>
    /\ replies = <<RespNull, RespArray(<<RespNull>>), RespNull>>
    /\ backend = Backend_new

(***************************************************************************)
(* Claims about the two drafts of the decoder, over SpecCodec.             *)
(***************************************************************************)
\* C25: the two drafts of the decoder are equivalent: on every buffer, a whole
\* frame, a strict prefix of one, a frame followed by more bytes or malformed
\* bytes, decode of decode.rs and decode of frame.rs return the same frame or
\* the same kind of error and leave the buffer in the same state
C25_DraftsEquivalent ==
    op = "decode" =>
        /\ frame_rs_decode(before).err = res.err
        /\ res.err = "None" =>
               /\ frame_rs_decode(before).frame.tag = res.frame.tag
               /\ frame_rs_decode(before).frame = res.frame
        /\ frame_rs_decode(before).buf = buf


(***************************************************************************)
(* Claims about functions called on their own, over SpecCalls.             *)
(***************************************************************************)
\* C26: find_crlf(buf, n) returns the index of the `\r` of the n-th CRLF of
\* buf, and None when buf holds fewer than n; on the empty buffer and on a
\* buffer of one byte it returns None and does not panic
C26_FindCrlfNth ==
    callee = "find_crlf" =>
        /\ ret.kind \in {"Some", "None"}
        /\ ret.kind = "Some" <=> Cardinality(CrlfAt(arg.buf)) >= arg.nth
        /\ ret.kind = "Some" =>
               /\ ret.val \in CrlfAt(arg.buf)
               /\ Cardinality({j \in CrlfAt(arg.buf) : j < ret.val}) = arg.nth - 1
        /\ Len(arg.buf) <= 1 => ret.kind = "None"

\* find_crlf on the buffers of two bytes and more, where it does not panic
FindCrlfFromTwoBytes ==
    callee = "find_crlf" /\ Len(arg.buf) >= 2 =>
        /\ ret.kind = "Some" <=> Cardinality(CrlfAt(arg.buf)) >= arg.nth
        /\ ret.kind = "Some" =>
               /\ arg.buf[ret.val + 1] = CR
               /\ arg.buf[ret.val + 2] = LF
               /\ Cardinality({j \in CrlfAt(arg.buf) : j < ret.val}) = arg.nth - 1
        /\ ret.kind \in {"Some", "None"}

\* C28: RespFrame::from(v) of an f64 returns Double(RespDouble::new(v)) and
\* does not call itself: no second frame of it is ever on the stack and the
\* call does not end in an abort
C28_FromF64Returns ==
    callee = "RespFrame::from" =>
        /\ depth <= 1
        /\ ret.kind \in {"NotCalled", "Value"}
        /\ ret.kind = "Value" => ret.val = RespDouble(RespDouble_new(arg))


(***************************************************************************)
(* Claims about the codec on arbitrary bytes, over SpecBytes.              *)
(***************************************************************************)
\* C27: on every byte sequence decode and expect_length return a value or a
\* RespError: no call panics, by an index past the end of the buffer or by a
\* length subtraction that underflows
C27_DecodeNeverPanics ==
    /\ op = "decode" => res.err # "Panic"
    /\ op = "expect_length" => el.err # "Panic"

\* expect_length taken alone does not panic
ExpectLengthNeverPanics == el.err # "Panic"


(***************************************************************************)
(* Claims about the arithmetic of the conversions, over SpecParse.         *)
(***************************************************************************)
\* C30: Command::try_from and the TryFrom<RespArray> of every command return
\* Ok or Err for every array, the empty array and the array of the name alone
\* included: frames.len() - keys.len() in validate_command and arr.len() - 1
\* in the conversions of HMGET and SADD never underflow
C30_ConversionsNeverUnderflow ==
    op = "try_from" => parsed.err # "Panic"

\* Command::try_from taken alone returns for every frame
CommandTryFromReturns ==
    (op = "try_from" /\ parsed.type = "Command") => parsed.err # "Panic"

\* on an array that is not empty every conversion returns
NonEmptyArrayReturns ==
    (op = "try_from" /\ parsed.input.val # <<>>) => parsed.err # "Panic"

====
